---- MODULE Spec2Model ----
(***************************************************************************)
(* Model of the order path of danbot: ExecutionEngine.place_order          *)
(* (strategy/execution.py) on top of RiskManager (strategy/risk.py) and    *)
(* SlippageModel (strategy/execution.py).                                  *)
(*                                                                         *)
(* Numbers are fixed point.  Quantities are integers in units of the       *)
(* smallest quantity increment; prices are integers in units of 1e-9, so   *)
(* that round(price, 8) is a real rounding (to a multiple of 10 units);    *)
(* notionals are quantity * price in those units.  Basis-point values are  *)
(* integers in hundredths of a basis point.  Clock readings are integers;  *)
(* NoTime stands for None.                                                 *)
(***************************************************************************)
EXTENDS Integers, Sequences, FiniteSets, TLC

\* ------------------------------------------------------------------ bounds
\* Last clock reading of the model.
MaxTime == 1
\* Number of place_order calls in one behaviour.
MaxCalls == 2
\* Number of place_order calls in one behaviour of the cache alone.
MaxCacheCalls == 4
\* Largest value the consecutive_losses counter takes.
MaxLosses == 2
\* Largest value the open_positions counter takes by direct opens.
MaxOpen == 2
\* Largest exposure of a symbol reached by direct opens.
MaxExposure == 400

NoTime == 0 - 1

\* ------------------------------------------------------- the configuration
\* RiskManager fields set at construction (risk.py:10-20), in model units.
max_daily_loss_pct == 3
max_positions == 2
max_positions_per_symbol == 1
max_exposure_per_symbol == 300
max_account_exposure == 500
max_consecutive_losses == 2
cooldown_seconds == 1
loss_cooldown_seconds == 2
include_unrealized_pnl == TRUE

\* SlippageModel fields (execution.py:18-20); edge_safety_factor is
\* edge_safety_factor_num / edge_safety_factor_den.
max_slippage_bps == 800
spread_guard_bps == 1500
edge_safety_factor_num == 7
edge_safety_factor_den == 10

\* ExecutionEngine fields (execution.py:69); the delay is in milliseconds.
retries == 2
retry_base_delay_s == 200
max_dedup_entries == 2

\* random.uniform(0.01, 0.2) of the backoff (execution.py:148), its two end
\* points in milliseconds.
JitterMin == 10
JitterMax == 200

\* ------------------------------------------------------------- the inputs
Symbols == {"BTCUSDT", "ETHUSDT"}
Sides == {"BUY"}
Qtys == {12}
Prices == {23, 27}
\* SymbolFilters (execution.py:38-42): exchange filters and "no filter".
FilterSets ==
  { [tick_size |-> 10, step_size |-> 10, min_notional |-> 100],
    [tick_size |-> 10, step_size |-> 10, min_notional |-> 1000],
    [tick_size |-> 0, step_size |-> 0, min_notional |-> 0] }
\* spread_bps, expected_edge_bps, volatility (units of 1e-4), impact (units
\* of 1e-6) and depth (0 stands for None) of a place_order call.
Markets ==
  { [spread_bps |-> 300, expected_edge_bps |-> 2000, volatility |-> 10, impact |-> 0, depth |-> 0],
    [spread_bps |-> 2000, expected_edge_bps |-> 2000, volatility |-> 10, impact |-> 0, depth |-> 0],
    [spread_bps |-> 300, expected_edge_bps |-> 2000, volatility |-> 10, impact |-> 0, depth |-> 10000],
    [spread_bps |-> 300, expected_edge_bps |-> 200, volatility |-> 10, impact |-> 5, depth |-> 0] }

Max(a, b) == IF a >= b THEN a ELSE b
Min(a, b) == IF a <= b THEN a ELSE b

RECURSIVE Pow2(_)
Pow2(n) == IF n <= 0 THEN 1 ELSE 2 * Pow2(n - 1)

\* ---------------------------------------------------------- _quantize
\* Decimal division followed by quantize(Decimal("1"), ROUND_DOWN): the
\* quotient truncated toward zero.
TruncDiv(a, b) == IF a >= 0 THEN a \div b ELSE 0 - ((0 - a) \div b)

\* A rounding that goes to the nearest multiple instead of down.
QuantizeNearest(value, step) ==
  IF step <= 0 THEN value ELSE TruncDiv(2 * value + step, 2 * step) * step

\* ExecutionEngine._quantize
Quantize(value, step) ==
  IF step <= 0 THEN value ELSE TruncDiv(value, step) * step

\* round(normalized_price, 8): to the nearest multiple of 10 price units,
\* a tie going to the even multiple.
Round8(p) ==
  LET lo == (p \div 10) * 10
      r == p - lo
  IN IF r < 5 THEN lo
     ELSE IF r > 5 THEN lo + 10
     ELSE IF (lo \div 10) % 2 = 0 THEN lo ELSE lo + 10

\* The f-string of execution.py:95, as the tuple of its four fields.
OrderKey(symbol, side, normalized_qty, normalized_price) ==
  <<symbol, side, normalized_qty, Round8(normalized_price)>>

\* ---------------------------------------------------------- SlippageModel
\* SlippageModel.expected_slippage_bps, in hundredths of a basis point.
ExpectedSlippageBps(order_size, spread_bps, volatility, depth, impact) ==
  IF depth > 0
    THEN spread_bps \div 2 + (order_size * 1000000) \div depth + volatility * 15
    ELSE spread_bps \div 2 + impact * order_size + volatility * 15

\* validate that compares the cost with the edge before it compares it
\* with max_slippage_bps.
ValidateEdgeFirst(expected_bps, spread_bps, expected_edge_bps) ==
  IF spread_bps > spread_guard_bps THEN <<FALSE, "spread_guard">>
  ELSE IF expected_bps * edge_safety_factor_den > expected_edge_bps * edge_safety_factor_num
    THEN <<FALSE, "cost_exceeds_edge">>
  ELSE IF expected_bps > max_slippage_bps THEN <<FALSE, "slippage_guard">>
  ELSE <<TRUE, "ok">>

\* SlippageModel.validate
Validate(expected_bps, spread_bps, expected_edge_bps) ==
  IF spread_bps > spread_guard_bps THEN <<FALSE, "spread_guard">>
  ELSE IF expected_bps > max_slippage_bps THEN <<FALSE, "slippage_guard">>
  ELSE IF expected_bps * edge_safety_factor_den > expected_edge_bps * edge_safety_factor_num
    THEN <<FALSE, "cost_exceeds_edge">>
  ELSE <<TRUE, "ok">>

\* ------------------------------------------------------------ RiskManager
SumExposure(r) ==
  LET RECURSIVE Sum(_)
      Sum(S) == IF S = {} THEN 0
                ELSE LET s == CHOOSE x \in S : TRUE
                     IN r.exposure_by_symbol[s] + Sum(S \ {s})
  IN Sum(Symbols)

\* The names of the checks of can_trade, in the order of the source.
RiskChecks ==
  << "kill_switch", "staleness_block", "spread_block", "slippage_block",
     "volatility_block", "daily_loss_circuit_breaker",
     "consecutive_losses_circuit_breaker", "max_positions",
     "max_positions_per_symbol", "max_symbol_exposure", "max_account_exposure",
     "symbol_cooldown" >>

\* can_trade with the daily-loss check moved behind the position and
\* exposure checks.
CanTradeLossLate(r, t, symbol, notional, stale, spread_blocked, slippage_blocked) ==
  IF r.kill_switch THEN <<FALSE, "kill_switch">>
  ELSE IF stale THEN <<FALSE, "staleness_block">>
  ELSE IF spread_blocked THEN <<FALSE, "spread_block">>
  ELSE IF slippage_blocked THEN <<FALSE, "slippage_block">>
  ELSE IF r.vol_blocked_until # NoTime /\ t < r.vol_blocked_until
    THEN <<FALSE, "volatility_block">>
  ELSE IF r.consecutive_losses >= max_consecutive_losses
    THEN <<FALSE, "consecutive_losses_circuit_breaker">>
  ELSE IF r.open_positions >= max_positions THEN <<FALSE, "max_positions">>
  ELSE IF r.open_positions_by_symbol[symbol] >= max_positions_per_symbol
    THEN <<FALSE, "max_positions_per_symbol">>
  ELSE IF r.exposure_by_symbol[symbol] + notional > max_exposure_per_symbol
    THEN <<FALSE, "max_symbol_exposure">>
  ELSE IF SumExposure(r) + notional > max_account_exposure
    THEN <<FALSE, "max_account_exposure">>
  ELSE IF r.loss_today_pct >= max_daily_loss_pct
    THEN <<FALSE, "daily_loss_circuit_breaker">>
  ELSE IF r.cooldown_until[symbol] # NoTime /\ t < r.cooldown_until[symbol]
    THEN <<FALSE, "symbol_cooldown">>
  ELSE <<TRUE, "ok">>

\* can_trade that looks at the kill switch only after the market checks.
CanTradeKillLate(r, t, symbol, notional, stale, spread_blocked, slippage_blocked) ==
  IF stale THEN <<FALSE, "staleness_block">>
  ELSE IF spread_blocked THEN <<FALSE, "spread_block">>
  ELSE IF slippage_blocked THEN <<FALSE, "slippage_block">>
  ELSE IF r.kill_switch THEN <<FALSE, "kill_switch">>
  ELSE IF r.vol_blocked_until # NoTime /\ t < r.vol_blocked_until
    THEN <<FALSE, "volatility_block">>
  ELSE IF r.loss_today_pct >= max_daily_loss_pct
    THEN <<FALSE, "daily_loss_circuit_breaker">>
  ELSE IF r.consecutive_losses >= max_consecutive_losses
    THEN <<FALSE, "consecutive_losses_circuit_breaker">>
  ELSE IF r.open_positions >= max_positions THEN <<FALSE, "max_positions">>
  ELSE IF r.open_positions_by_symbol[symbol] >= max_positions_per_symbol
    THEN <<FALSE, "max_positions_per_symbol">>
  ELSE IF r.exposure_by_symbol[symbol] + notional > max_exposure_per_symbol
    THEN <<FALSE, "max_symbol_exposure">>
  ELSE IF SumExposure(r) + notional > max_account_exposure
    THEN <<FALSE, "max_account_exposure">>
  ELSE IF r.cooldown_until[symbol] # NoTime /\ t < r.cooldown_until[symbol]
    THEN <<FALSE, "symbol_cooldown">>
  ELSE <<TRUE, "ok">>

\* can_trade without the two exposure checks.
CanTradeNoExposure(r, t, symbol, notional, stale, spread_blocked, slippage_blocked) ==
  IF r.kill_switch THEN <<FALSE, "kill_switch">>
  ELSE IF stale THEN <<FALSE, "staleness_block">>
  ELSE IF spread_blocked THEN <<FALSE, "spread_block">>
  ELSE IF slippage_blocked THEN <<FALSE, "slippage_block">>
  ELSE IF r.vol_blocked_until # NoTime /\ t < r.vol_blocked_until
    THEN <<FALSE, "volatility_block">>
  ELSE IF r.loss_today_pct >= max_daily_loss_pct
    THEN <<FALSE, "daily_loss_circuit_breaker">>
  ELSE IF r.consecutive_losses >= max_consecutive_losses
    THEN <<FALSE, "consecutive_losses_circuit_breaker">>
  ELSE IF r.open_positions >= max_positions THEN <<FALSE, "max_positions">>
  ELSE IF r.open_positions_by_symbol[symbol] >= max_positions_per_symbol
    THEN <<FALSE, "max_positions_per_symbol">>
  ELSE IF r.cooldown_until[symbol] # NoTime /\ t < r.cooldown_until[symbol]
    THEN <<FALSE, "symbol_cooldown">>
  ELSE <<TRUE, "ok">>

\* RiskManager.can_trade on the manager r at clock reading t.  The reason
\* log _reasons, which no other operation reads, is left out.
CanTrade(r, t, symbol, notional, stale, spread_blocked, slippage_blocked) ==
  IF r.kill_switch THEN <<FALSE, "kill_switch">>
  ELSE IF stale THEN <<FALSE, "staleness_block">>
  ELSE IF spread_blocked THEN <<FALSE, "spread_block">>
  ELSE IF slippage_blocked THEN <<FALSE, "slippage_block">>
  ELSE IF r.vol_blocked_until # NoTime /\ t < r.vol_blocked_until
    THEN <<FALSE, "volatility_block">>
  ELSE IF r.loss_today_pct >= max_daily_loss_pct
    THEN <<FALSE, "daily_loss_circuit_breaker">>
  ELSE IF r.consecutive_losses >= max_consecutive_losses
    THEN <<FALSE, "consecutive_losses_circuit_breaker">>
  ELSE IF r.open_positions >= max_positions THEN <<FALSE, "max_positions">>
  ELSE IF r.open_positions_by_symbol[symbol] >= max_positions_per_symbol
    THEN <<FALSE, "max_positions_per_symbol">>
  ELSE IF r.exposure_by_symbol[symbol] + notional > max_exposure_per_symbol
    THEN <<FALSE, "max_symbol_exposure">>
  ELSE IF SumExposure(r) + notional > max_account_exposure
    THEN <<FALSE, "max_account_exposure">>
  ELSE IF r.cooldown_until[symbol] # NoTime /\ t < r.cooldown_until[symbol]
    THEN <<FALSE, "symbol_cooldown">>
  ELSE <<TRUE, "ok">>

\* apply_trade_open that leaves the count of the symbol alone.
TradeOpenNoSymbolCount(r, t, symbol, notional) ==
  [r EXCEPT !.open_positions = @ + 1,
            !.exposure_by_symbol[symbol] = @ + Max(notional, 0),
            !.cooldown_until[symbol] = t + cooldown_seconds]

\* RiskManager.apply_trade_open of a manager whose cooldown_seconds is
\* cooldown.
TradeOpenWith(r, t, symbol, notional, cooldown) ==
  [r EXCEPT !.open_positions = @ + 1,
            !.open_positions_by_symbol[symbol] = @ + 1,
            !.exposure_by_symbol[symbol] = @ + Max(notional, 0),
            !.cooldown_until[symbol] = t + cooldown]

\* RiskManager.apply_trade_open
TradeOpen(r, t, symbol, notional) == TradeOpenWith(r, t, symbol, notional, cooldown_seconds)

\* apply_trade_close that subtracts without the floor of zero.
TradeCloseNoFloor(r, t, symbol, pnl_pct, released_notional) ==
  LET closed ==
        [r EXCEPT !.open_positions = @ - 1,
                  !.open_positions_by_symbol[symbol] = @ - 1,
                  !.exposure_by_symbol[symbol] = @ - Max(released_notional, 0)]
  IN IF pnl_pct < 0
       THEN [closed EXCEPT !.consecutive_losses = @ + 1,
                           !.cooldown_until[symbol] = t + loss_cooldown_seconds]
       ELSE [closed EXCEPT !.consecutive_losses = 0]

\* apply_trade_close that keeps the count of losses at a close without a
\* loss.
TradeCloseKeepsLosses(r, t, symbol, pnl_pct, released_notional) ==
  LET closed ==
        [r EXCEPT !.open_positions = Max(0, @ - 1),
                  !.open_positions_by_symbol[symbol] = Max(0, @ - 1),
                  !.exposure_by_symbol[symbol] = Max(0, @ - Max(released_notional, 0))]
  IN IF pnl_pct < 0
       THEN [closed EXCEPT !.consecutive_losses = @ + 1,
                           !.cooldown_until[symbol] = t + loss_cooldown_seconds]
       ELSE closed

\* RiskManager.apply_trade_close of a manager whose loss_cooldown_seconds
\* is loss_cooldown.
TradeCloseWith(r, t, symbol, pnl_pct, released_notional, loss_cooldown) ==
  LET closed ==
        [r EXCEPT !.open_positions = Max(0, @ - 1),
                  !.open_positions_by_symbol[symbol] = Max(0, @ - 1),
                  !.exposure_by_symbol[symbol] = Max(0, @ - Max(released_notional, 0))]
  IN IF pnl_pct < 0
       THEN [closed EXCEPT !.consecutive_losses = @ + 1,
                           !.cooldown_until[symbol] = t + loss_cooldown]
       ELSE [closed EXCEPT !.consecutive_losses = 0]

\* RiskManager.apply_trade_close
TradeClose(r, t, symbol, pnl_pct, released_notional) ==
  TradeCloseWith(r, t, symbol, pnl_pct, released_notional, loss_cooldown_seconds)

\* The RiskManager after construction (risk.py:21-28).
NewRiskManager ==
  [ loss_today_pct |-> 0,
    open_positions |-> 0,
    kill_switch |-> FALSE,
    vol_blocked_until |-> NoTime,
    consecutive_losses |-> 0,
    open_positions_by_symbol |-> [s \in Symbols |-> 0],
    exposure_by_symbol |-> [s \in Symbols |-> 0],
    cooldown_until |-> [s \in Symbols |-> NoTime] ]

\* -------------------------------------------------------------- the state
VARIABLES
  now,      \* the clock: what datetime.now and time.time_ns read
  risk,     \* the RiskManager
  cache,    \* ExecutionEngine._idempotency_cache, in insertion order
  call,     \* the place_order call in flight, with its position (pc)
  req,      \* the arguments of the place_order call started last
  last,     \* what the place_order call that returned last returned
  prev,     \* the same for the call that returned before it
  ncalls,   \* number of place_order calls started
  quantized, \* a call of _quantize: its arguments and, once made, its result
  vol_blocked, \* the trading loop's vol_blocked: the update_volatility call
               \* made last, its result and the deadlines set so far
  sized,       \* a call of position_size: its arguments and its result
  validated,   \* a call of SlippageModel.validate: its arguments and its result
  adapter,     \* the ExchangeAdapter, its TimeSync and its rest client's offset
  signed,      \* the adapter call in progress, or the one that ended last
  nadapter,    \* number of adapter calls started
  ws,          \* the BinanceWsClient: its _running flag
  consumers,   \* per stream, the consume call on it, and whether stop() ran
               \* since it began
  supervisor,  \* the WebsocketSupervisor: _running, its tasks, its last cycle
  stream_last_update,  \* the client's stream_last_update; NoTime: no entry
  wsclock,     \* datetime.now of the websocket client
  bus,         \* the EngineEventBus: _history and the subscribers' queues
  busobs,      \* what was published since the last clear_history, the
               \* last snapshot call, and the queues whose unsubscribe
               \* has returned
  machines,    \* two ProbabilisticStateMachine instances: their confidences
  updates,     \* the update calls made: their arguments, and how many of
               \* them each machine has had
  strategy,    \* the ReversalStrategy: its config, its machine_by_symbol
  strategy_signal,  \* the evaluate call made last: its arguments and its result
  zscored,     \* the on_trade call made last: the trades it found in each
               \* 10-second bucket, its tick, and the volume z-score it gave
  parked,      \* a place_order call suspended at an await while another
               \* one runs; call is the one whose code runs next
  controller,  \* the API EngineController: its flags, engine task and lock
  ops,         \* the position of each call of start, stop and kill_switch,
               \* and the message it returned last
  settings     \* cooldown_seconds and loss_cooldown_seconds of a RiskManager
               \* constructed with other values than the configuration's

vars == <<now, risk, cache, call, req, last, prev, ncalls, quantized, vol_blocked, sized,
          validated, adapter, signed, nadapter, ws, consumers,
          supervisor, stream_last_update, wsclock, bus, busobs, machines, updates,
          strategy, strategy_signal, zscored, parked, controller, ops, settings>>

\* The variables that the order path (place_order, the RiskManager's
\* operations called directly, the clock) leaves alone.
pureVars == <<sized, validated>>
adapterVars == <<adapter, signed, nadapter>>
wsVars == <<ws, consumers>>
supVars == <<supervisor, stream_last_update, wsclock>>
busVars == <<bus, busobs>>
smVars == <<machines, updates>>
stratVars == <<strategy, strategy_signal>>
featVars == <<zscored>>
concVars == <<parked>>
ctrlVars == <<controller, ops>>
cfgVars == <<settings>>
restVars == <<concVars, ctrlVars, cfgVars>>
laterVars == <<supVars, busVars, smVars, stratVars, featVars, restVars>>
beyondRisk == <<adapterVars, wsVars, pureVars, laterVars>>
outsideOrderPath == <<vol_blocked, beyondRisk>>

\* No update_volatility call made yet.
NoVolBlocked ==
  [called |-> FALSE, result |-> FALSE, vol_10s |-> 0, at |-> NoTime,
   until_before |-> NoTime, until_after |-> NoTime,
   deadline |-> NoTime, promised |-> NoTime]

\* No position_size call made yet.
NoSized ==
  [max_notional_per_trade |-> 0, equity |-> 0, confidence |-> 0,
   stop_distance_pct |-> 0, size_multiplier |-> 0, done |-> FALSE, result |-> <<0, 0>>]

InitVolBlocked == vol_blocked = NoVolBlocked
\* No validate call made yet.
NoValidated ==
  [expected_bps |-> 0, spread_bps |-> 0, expected_edge_bps |-> 0, done |-> FALSE,
   result |-> <<FALSE, "">>]

InitPure == sized = NoSized /\ validated = NoValidated
\* ExchangeAdapter(mode, api_key, api_secret) with time_sync = None.
NewExchangeAdapter(mode, api_key, api_secret) ==
  [mode |-> mode, api_key |-> api_key, api_secret |-> api_secret,
   base_url |-> IF mode = "DEMO" THEN "TESTNET_REST" ELSE "LIVE_REST",
   time_sync |-> [demo_offset_ms |-> 0, real_offset_ms |-> 0],
   time_offset_ms |-> 0]

\* No adapter call made yet.
NoSigned ==
  [op |-> "none", pc |-> "idle", method |-> "", path |-> "", attempts |-> <<>>,
   syncs |-> 0, resyncs |-> 0, synced |-> 0, first_error |-> "", outcome |-> "",
   raised_by |-> ""]

InitSigned == signed = NoSigned /\ nadapter = 0
InitAdapter == adapter = NewExchangeAdapter("DEMO", "key", "secret") /\ InitSigned

Streams == {"btcusdt@aggTrade", "ethusdt@aggTrade"}

\* BinanceWsClient(endpoint); no consume call made yet.
NewBinanceWsClient == [running |-> FALSE]
NoConsume == [pc |-> "unstarted", backoff |-> 0, failures |-> 0, stopped |-> FALSE]

InitWs == ws = NewBinanceWsClient /\ consumers = [s \in Streams |-> NoConsume]
InitNet == InitAdapter /\ InitWs
\* WebsocketSupervisor(client) before start(); no stream has an entry in
\* stream_last_update.
NewWebsocketSupervisor ==
  [running |-> FALSE, tasks |-> [s \in Streams |-> 0],
   started_at |-> [s \in Streams |-> NoTime], reported |-> {}]

InitSupervisor ==
  /\ supervisor = NewWebsocketSupervisor
  /\ stream_last_update = [s \in Streams |-> NoTime]
  /\ wsclock = 0
Subscribers == {"a", "b"}
\* A subscriber without a queue.
NoQueue == [subscribed |-> FALSE, maxsize |-> 0, items |-> <<>>]

\* EngineEventBus(history_limit) before any call.
NewEngineEventBus == [history |-> <<>>, queues |-> [q \in Subscribers |-> NoQueue]]
NoSnapshot == [called |-> FALSE, limit |-> 0, result |-> <<>>]

InitBus ==
  /\ bus = NewEngineEventBus
  /\ busobs = [published |-> 0, since_clear |-> <<>>, snapshot |-> NoSnapshot,
               unsubscribed |-> {}]
\* MarketState, in the order of its declaration.
MarketState == <<"BUILDUP", "IMPULSE", "CLIMAX", "EXHAUSTION", "REBALANCE">>
States == {MarketState[i] : i \in 1..Len(MarketState)}

\* The confidences of a new ProbabilisticStateMachine: 1.0 for BUILDUP and
\* 0.0 for the others.  A confidence is num[state] / den.
NewConfidences == [num |-> [s \in States |-> IF s = "BUILDUP" THEN 1 ELSE 0], den |-> 1]
Instances == {1, 2}

InitMachines ==
  /\ machines = [i \in Instances |-> NewConfidences]
  /\ updates = [inputs |-> <<>>, fed |-> [i \in Instances |-> 0]]

\* No ReversalStrategy constructed yet, and no evaluate call made.
NoStrategy ==
  [constructed |-> FALSE, exhaustion_confidence_threshold |-> 0,
   machine_by_symbol |-> <<>>, evaluations |-> 0]
NoSignal == [made |-> FALSE]

InitStrategy ==
  /\ strategy = NoStrategy
  /\ strategy_signal = NoSignal

\* No on_trade call made yet.
NoZscored == [made |-> FALSE]

InitFeatures == zscored = NoZscored

NoKey == <<>>
NoTimestamps ==
  [signal_time |-> NoTime, decision_time |-> NoTime, send_time |-> NoTime,
   ack_time |-> NoTime, fill_time |-> NoTime]
NoRecord ==
  [idempotency_key |-> NoKey, symbol |-> "", side |-> "", qty |-> 0, price |-> 0,
   status |-> "", reason |-> "", timestamps |-> NoTimestamps, attempt |-> NoTime]
NoOrder ==
  [symbol |-> "", side |-> "", qty |-> 0, mark_price |-> 0,
   symbol_filters |-> [tick_size |-> 0, step_size |-> 0, min_notional |-> 0]]
NoMarket ==
  [spread_bps |-> 0, expected_edge_bps |-> 0, volatility |-> 0, impact |-> 0, depth |-> 0]
NoReq == [order |-> NoOrder, market |-> NoMarket]
IdleCall ==
  [pc |-> "idle", order |-> NoOrder, key |-> NoKey, normalized_qty |-> 0,
   normalized_price |-> 0, notional |-> 0, attempt |-> 0, timestamps |-> NoTimestamps,
   submits |-> 0, sent |-> <<>>, sleeps |-> <<>>]
NoQuantize == [value |-> 0, step |-> 0, done |-> FALSE, result |-> 0]
NoResult ==
  [order |-> NoOrder, key |-> NoKey, record |-> NoRecord, submits |-> 0,
   sent |-> <<>>, sleeps |-> 0, hit |-> FALSE]

\* No place_order call suspended beside the one that runs.
InitParked == parked = IdleCall

\* The EngineController after construction, no call of it made
\* (engine_controller.py:36-41); kill_switch_engaged is the flag of its
\* AppState.
\* engine_task is "none", "running", "cancelling" (cancel() called, the
\* task not yet ended) or "done"; runtime_lock is the sequence of the calls
\* at the lock: its head holds it, the others wait in the order they came.
NewEngineController ==
  [running |-> FALSE, entries_paused |-> FALSE, kill_switch_engaged |-> FALSE,
   engine_task |-> "none", runtime_lock |-> <<>>]

\* The calls of the controller that take _runtime_lock.
Calls == {"start", "stop", "kill_switch"}

InitController ==
  /\ controller = NewEngineController
  /\ ops = [c \in Calls |-> [at |-> "idle", returned |-> "none"]]

\* No RiskManager constructed with cooldowns of its own.
NoSettings == [constructed |-> FALSE, cooldown_seconds |-> 0, loss_cooldown_seconds |-> 0]

InitSettings == settings = NoSettings

InitLater ==
  /\ InitSupervisor /\ InitBus /\ InitMachines /\ InitStrategy /\ InitFeatures
  /\ InitParked /\ InitController /\ InitSettings
InitBeyondRisk == InitNet /\ InitPure /\ InitLater
InitOutsideOrderPath == InitVolBlocked /\ InitBeyondRisk

\* The exceptions submit_fn raises, by their text.
Exceptions == {"timeout"}
SubmitErrorReason(exc) == "submit_error:" \o exc

\* ------------------------------------------------- the idempotency cache
\* A membership test that finds nothing.
KeyInNever(c, key) == FALSE

KeyIn(c, key) == \E i \in 1..Len(c) : c[i].key = key
Lookup(c, key) == c[CHOOSE i \in 1..Len(c) : c[i].key = key].record

\* A cache that stores nothing.
CacheNoPut(c, key, record) == c

\* A cache that, over its limit, drops the entry inserted last.
CachePutPopLast(c, key, record) ==
  LET put == IF \E i \in 1..Len(c) : c[i].key = key
               THEN [i \in 1..Len(c) |->
                       IF c[i].key = key THEN [key |-> key, record |-> record] ELSE c[i]]
               ELSE Append(c, [key |-> key, record |-> record])
  IN IF Len(put) > max_dedup_entries THEN SubSeq(put, 1, Len(put) - 1) ELSE put

\* ExecutionEngine._cache: the cache after the call (the record is returned
\* as it was given).  Assigning to a key of a dict keeps the key's place.
CachePut(c, key, record) ==
  LET put == IF KeyIn(c, key)
               THEN [i \in 1..Len(c) |->
                       IF c[i].key = key THEN [key |-> key, record |-> record] ELSE c[i]]
               ELSE Append(c, [key |-> key, record |-> record])
  IN IF Len(put) > max_dedup_entries THEN Tail(put) ELSE put

\* ExecutionEngine._blocked
Blocked(order, qty, price, signal_time, decision_time, reason, time_ns) ==
  [idempotency_key |-> <<"blocked", time_ns>>,
   symbol |-> order.symbol, side |-> order.side, qty |-> qty, price |-> price,
   status |-> "BLOCKED", reason |-> reason,
   timestamps |-> [NoTimestamps EXCEPT !.signal_time = signal_time,
                                       !.decision_time = decision_time],
   attempt |-> NoTime]

\* The order path after construction: an ExecutionEngine with an empty
\* cache on a new RiskManager, no call made.
InitOrderPath ==
  /\ now = 0
  /\ risk = NewRiskManager
  /\ cache = <<>>
  /\ call = IdleCall
  /\ req = NoReq
  /\ last = NoResult
  /\ prev = NoResult
  /\ ncalls = 0
  /\ quantized = NoQuantize

Init == InitOrderPath /\ InitOutsideOrderPath

\* The guards of place_order before any submission (execution.py:99-107):
\* the reason of the BLOCKED record, "ok" when the order passes.  With the
\* risk reason taking precedence over the slippage reason:
PreSubmitGuardsRiskFirst(symbol, normalized_qty, notional, min_notional, market, r, t) ==
  LET expected == ExpectedSlippageBps(normalized_qty, market.spread_bps, market.volatility,
                                      market.depth, market.impact)
      slippage == Validate(expected, market.spread_bps, market.expected_edge_bps)
      admitted == CanTrade(r, t, symbol, notional, FALSE,
                           market.spread_bps > spread_guard_bps, ~slippage[1])
  IN IF notional < min_notional THEN "min_notional"
     ELSE IF ~slippage[1] \/ ~admitted[1]
       THEN IF ~admitted[1] THEN admitted[2] ELSE slippage[2]
     ELSE "ok"

PreSubmitGuards(symbol, normalized_qty, notional, min_notional, market, r, t) ==
  LET expected == ExpectedSlippageBps(normalized_qty, market.spread_bps, market.volatility,
                                      market.depth, market.impact)
      slippage == Validate(expected, market.spread_bps, market.expected_edge_bps)
      admitted == CanTrade(r, t, symbol, notional, FALSE,
                           market.spread_bps > spread_guard_bps, ~slippage[1])
  IN IF notional < min_notional THEN "min_notional"
     ELSE IF ~slippage[1] \/ ~admitted[1]
       THEN IF ~slippage[1] THEN slippage[2] ELSE admitted[2]
     ELSE "ok"

\* The test that ends the retry loop (execution.py:134), and the same test
\* off by one.
LastAttemptLate(attempt) == attempt > retries
LastAttempt(attempt) == attempt >= retries

\* The backoff delay (execution.py:148), and the same without the doubling.
BackoffDelayFlat(attempt, jitter) == retry_base_delay_s + jitter
BackoffDelay(attempt, jitter) == retry_base_delay_s * Pow2(attempt) + jitter

\* place_order returns: record is the result, c the cache it leaves.  Of
\* the call, last keeps the number of submit_fn calls it made, the
\* arguments of those calls and the number of backoff sleeps.
Return(order, key, record, c, submits, sent, sleeps, hit) ==
  /\ cache' = c
  /\ call' = IdleCall
  /\ prev' = last
  /\ last' = [order |-> order, key |-> key, record |-> record, submits |-> submits,
              sent |-> sent, sleeps |-> Len(sleeps), hit |-> hit]

\* place_order from its first line to its first await or return
\* (execution.py:90-116).
PlaceOrder(order, market, signal_time) ==
  LET decision_time == now
      signal == IF signal_time = NoTime THEN decision_time ELSE signal_time
      f == order.symbol_filters
      normalized_qty == Quantize(order.qty, f.step_size)
      normalized_price == Quantize(order.mark_price, f.tick_size)
      notional == normalized_qty * normalized_price
      key == OrderKey(order.symbol, order.side, normalized_qty, normalized_price)
      reason == PreSubmitGuards(order.symbol, normalized_qty, notional, f.min_notional,
                                market, risk, now)
      blocked(why) ==
        Blocked(order, normalized_qty, normalized_price, signal, decision_time, why, now)
  IN /\ call.pc = "idle"
     /\ ncalls' = ncalls + 1
     /\ req' = [order |-> order, market |-> market]
     /\ UNCHANGED <<now, risk, quantized>>
     /\ IF KeyIn(cache, key)
          THEN Return(order, key, Lookup(cache, key), cache, 0, <<>>, <<>>, TRUE)
        ELSE IF reason # "ok"
          THEN Return(order, key, blocked(reason),
                      CachePut(cache, key, blocked(reason)), 0, <<>>, <<>>, FALSE)
        ELSE /\ call' = [pc |-> "awaiting_submit", order |-> order, key |-> key,
                         normalized_qty |-> normalized_qty,
                         normalized_price |-> normalized_price, notional |-> notional,
                         attempt |-> 0,
                         timestamps |-> [NoTimestamps EXCEPT !.signal_time = signal,
                                                             !.decision_time = decision_time,
                                                             !.send_time = now],
                         submits |-> 1,
                         sent |-> <<order.symbol, order.side, normalized_qty, normalized_price>>,
                         sleeps |-> <<>>]
             /\ UNCHANGED <<cache, last, prev>>
     /\ UNCHANGED outsideOrderPath

\* submit_fn returns an ack (execution.py:117-132).
SubmitReturns ==
  /\ call.pc = "awaiting_submit"
  /\ LET ts == [call.timestamps EXCEPT !.ack_time = now, !.fill_time = now]
         record == [idempotency_key |-> call.key, symbol |-> call.order.symbol,
                    side |-> call.order.side, qty |-> call.normalized_qty,
                    price |-> call.normalized_price, status |-> "FILLED",
                    reason |-> "ok", timestamps |-> ts, attempt |-> call.attempt]
     IN /\ risk' = TradeOpen(risk, now, call.order.symbol, call.notional)
        /\ Return(call.order, call.key, record, CachePut(cache, call.key, record),
                  call.submits, call.sent, call.sleeps, FALSE)
  /\ UNCHANGED <<now, req, ncalls, quantized>>
  /\ UNCHANGED outsideOrderPath

\* submit_fn raises exc (execution.py:133-149): the last attempt gives the
\* REJECTED record, an earlier one starts the backoff sleep.
SubmitRaises(exc, jitter) ==
  /\ call.pc = "awaiting_submit"
  /\ IF LastAttempt(call.attempt)
       THEN LET record == [idempotency_key |-> call.key, symbol |-> call.order.symbol,
                           side |-> call.order.side, qty |-> call.normalized_qty,
                           price |-> call.normalized_price, status |-> "REJECTED",
                           reason |-> SubmitErrorReason(exc),
                           timestamps |-> call.timestamps, attempt |-> call.attempt]
            IN Return(call.order, call.key, record, CachePut(cache, call.key, record),
                      call.submits, call.sent, call.sleeps, FALSE)
       ELSE /\ call' = [call EXCEPT
                          !.pc = "sleeping",
                          !.sleeps = Append(@, BackoffDelay(call.attempt, jitter))]
            /\ UNCHANGED <<cache, last, prev>>
  /\ UNCHANGED <<now, risk, req, ncalls, quantized>>
  /\ UNCHANGED outsideOrderPath

\* A next attempt that keeps the send_time of the attempt before it.
NextAttemptStaleSend ==
  /\ call.pc = "sleeping"
  /\ call' = [call EXCEPT !.pc = "awaiting_submit",
                          !.attempt = @ + 1,
                          !.submits = @ + 1]
  /\ UNCHANGED <<now, risk, cache, req, last, prev, ncalls, quantized>>
  /\ UNCHANGED outsideOrderPath

\* The backoff sleep ends and the loop makes its next attempt
\* (execution.py:113-116).
NextAttempt ==
  /\ call.pc = "sleeping"
  /\ call' = [call EXCEPT !.pc = "awaiting_submit",
                          !.attempt = @ + 1,
                          !.timestamps.send_time = now,
                          !.submits = @ + 1]
  /\ UNCHANGED <<now, risk, cache, req, last, prev, ncalls, quantized>>
  /\ UNCHANGED outsideOrderPath

\* The event loop turns to the other place_order call.  A call is left
\* only where it awaits (submit_fn or the backoff sleep, execution.py:116,
\* 149) or before its first line; the call that was suspended, or a call
\* not started yet, is the one that runs next.
Resume ==
  /\ call # parked
  /\ call' = parked
  /\ parked' = call
  /\ UNCHANGED <<now, risk, cache, req, last, prev, ncalls, quantized, vol_blocked>>
  /\ UNCHANGED <<adapterVars, wsVars, pureVars, supVars, busVars, smVars, stratVars,
                 featVars, ctrlVars, cfgVars>>

\* The clock advances.
Tick ==
  /\ now < MaxTime
  /\ now' = now + 1
  /\ UNCHANGED <<risk, cache, call, req, last, prev, ncalls, quantized>>
  /\ UNCHANGED outsideOrderPath

\* ------------------------------------------- the RiskManager's operations
\* Arguments of apply_trade_open, apply_trade_close, update_pnl and
\* update_volatility.
Notionals == {0 - 50, 200}
Released == {100, 400}
PnlPcts == {0 - 1, 1}
RealizedPcts == {0 - 1, 2}
UnrealizedPcts == {0, 1}
Vols == {1, 3}
vol_kill_threshold == 2
vol_cooldown_seconds == 1

Idle == call.pc = "idle"

\* A direct call of apply_trade_open.
ApplyTradeOpen(symbol, notional) ==
  /\ Idle
  /\ risk.open_positions < MaxOpen
  /\ risk.open_positions_by_symbol[symbol] < MaxOpen
  /\ risk.exposure_by_symbol[symbol] + Max(notional, 0) <= MaxExposure
  /\ risk' = TradeOpen(risk, now, symbol, notional)
  /\ UNCHANGED <<now, cache, call, req, last, prev, ncalls, quantized>>
  /\ UNCHANGED outsideOrderPath

ApplyTradeClose(symbol, pnl_pct, released_notional) ==
  /\ Idle
  /\ pnl_pct < 0 => risk.consecutive_losses < MaxLosses
  /\ risk' = TradeClose(risk, now, symbol, pnl_pct, released_notional)
  /\ UNCHANGED <<now, cache, call, req, last, prev, ncalls, quantized>>
  /\ UNCHANGED outsideOrderPath

\* The cooldowns a RiskManager is constructed with, in clock readings.
CooldownSettings == {1, 2}

outsideSettings ==
  <<cache, call, req, last, prev, ncalls, quantized, vol_blocked, adapterVars, wsVars,
    pureVars, supVars, busVars, smVars, stratVars, featVars, concVars, ctrlVars>>

\* RiskManager(cooldown_seconds=cooldown, loss_cooldown_seconds=loss_cooldown)
RiskManagerWith(cooldown, loss_cooldown) ==
  /\ ~settings.constructed
  /\ settings' = [constructed |-> TRUE, cooldown_seconds |-> cooldown,
                  loss_cooldown_seconds |-> loss_cooldown]
  /\ UNCHANGED <<now, risk, outsideSettings>>

\* apply_trade_open on that manager.
ApplyTradeOpenWith(symbol, notional) ==
  /\ settings.constructed
  /\ risk.open_positions < MaxOpen
  /\ risk.open_positions_by_symbol[symbol] < MaxOpen
  /\ risk.exposure_by_symbol[symbol] + Max(notional, 0) <= MaxExposure
  /\ risk' = TradeOpenWith(risk, now, symbol, notional, settings.cooldown_seconds)
  /\ UNCHANGED <<now, settings, outsideSettings>>

\* apply_trade_close on that manager.
ApplyTradeCloseWith(symbol, pnl_pct, released_notional) ==
  /\ settings.constructed
  /\ pnl_pct < 0 => risk.consecutive_losses < MaxLosses
  /\ risk' = TradeCloseWith(risk, now, symbol, pnl_pct, released_notional,
                            settings.loss_cooldown_seconds)
  /\ UNCHANGED <<now, settings, outsideSettings>>

\* RiskManager.update_pnl
UpdatePnl(realized_pct, unrealized_pct) ==
  /\ Idle
  /\ risk' = [risk EXCEPT !.loss_today_pct =
                Max(realized_pct + (IF include_unrealized_pnl THEN unrealized_pct ELSE 0), 0)]
  /\ UNCHANGED <<now, cache, call, req, last, prev, ncalls, quantized>>
  /\ UNCHANGED outsideOrderPath

\* RiskManager.update_volatility: the manager it leaves and its result.
VolatilityUpdate(r, t, vol_10s, threshold, cooldown) ==
  IF vol_10s > threshold
    THEN <<[r EXCEPT !.vol_blocked_until = t + cooldown], TRUE>>
    ELSE <<r, FALSE>>

UpdateVolatility(vol_10s, threshold, cooldown) ==
  /\ Idle
  /\ risk' = VolatilityUpdate(risk, now, vol_10s, threshold, cooldown)[1]
  /\ UNCHANGED <<now, cache, call, req, last, prev, ncalls, quantized>>
  /\ UNCHANGED outsideOrderPath

\* The cooldowns the trading loop hands to update_volatility.
VolCooldowns == {1, 3}

\* The trading loop's call of update_volatility (main.py:95): the result
\* goes to vol_blocked.  Kept with it: the reading of the clock, the
\* deadline of the RiskManager before and after the call, the deadline
\* now + cooldown of the call that exceeded the threshold last, and the
\* latest such deadline of all calls so far.
RunUpdateVolatility(vol_10s, threshold, cooldown) ==
  /\ Idle
  /\ LET u == VolatilityUpdate(risk, now, vol_10s, threshold, cooldown)
         exceeds == vol_10s > threshold
     IN /\ risk' = u[1]
        /\ vol_blocked' =
             [called |-> TRUE, result |-> u[2], vol_10s |-> vol_10s, at |-> now,
              until_before |-> risk.vol_blocked_until,
              until_after |-> u[1].vol_blocked_until,
              deadline |-> IF exceeds THEN now + cooldown ELSE vol_blocked.deadline,
              promised |-> IF exceeds THEN Max(vol_blocked.promised, now + cooldown)
                                      ELSE vol_blocked.promised]
  /\ UNCHANGED <<now, cache, call, req, last, prev, ncalls, quantized>>
  /\ UNCHANGED beyondRisk

\* RiskManager.engage_kill_switch
EngageKillSwitch ==
  /\ Idle
  /\ risk' = [risk EXCEPT !.kill_switch = TRUE]
  /\ UNCHANGED <<now, cache, call, req, last, prev, ncalls, quantized>>
  /\ UNCHANGED outsideOrderPath

\* RiskManager.release_kill_switch
ReleaseKillSwitch ==
  /\ Idle
  /\ risk' = [risk EXCEPT !.kill_switch = FALSE]
  /\ UNCHANGED <<now, cache, call, req, last, prev, ncalls, quantized>>
  /\ UNCHANGED outsideOrderPath

\* ------------------------------------------------------- position_size
\* Sizes are ratios <<numerator, denominator>> in lowest terms.  The
\* confidence and the size multiplier are integers in tenths, the stop
\* distance is an integer in units of 1e-5 percent, so that
\* stop_distance_pct / 100 is StopFloor (1e-6) at 10 units.
max_trade_risk_pct == 1
StopFloor == 10

RECURSIVE Gcd(_, _)
Gcd(a, b) == IF b = 0 THEN a ELSE Gcd(b, a % b)

Ratio(num, den) == LET g == Gcd(num, den) IN <<num \div g, den \div g>>

\* position_size with the size multiplier taken as given.
PositionSizeRawMultiplier(max_notional_per_trade, equity, confidence, stop_distance_pct, size_multiplier) ==
  LET risk_budget == equity * max_trade_risk_pct * Max(Min(confidence, 10), 1)
      divisor == Max(stop_distance_pct, StopFloor)
      num == risk_budget * size_multiplier * 1000
  IN IF num >= max_notional_per_trade * divisor
       THEN <<max_notional_per_trade, 1>>
       ELSE Ratio(num, divisor)

\* RiskManager.position_size (risk.py:115-118): risk_budget is
\* equity * (max_trade_risk_pct / 100) * max(min(confidence, 1.0), 0.1), size
\* is risk_budget / max(stop_distance_pct / 100, 1e-6), the result
\* min(size * max(0.2, min(size_multiplier, 1.5)), max_notional_per_trade).
PositionSize(max_notional_per_trade, equity, confidence, stop_distance_pct, size_multiplier) ==
  LET risk_budget == equity * max_trade_risk_pct * Max(Min(confidence, 10), 1)
      divisor == Max(stop_distance_pct, StopFloor)
      num == risk_budget * Max(2, Min(size_multiplier, 15)) * 1000
  IN IF num >= max_notional_per_trade * divisor
       THEN <<max_notional_per_trade, 1>>
       ELSE Ratio(num, divisor)

\* Arguments of position_size, and the manager's max_notional_per_trade.
MaxNotionals == {100, 1000}
Equities == {0, 1, 10000}
Confidences == {0, 5, 10, 12}
StopDistances == {0, 5, 10, 100000}
SizeMultipliers == {1, 12, 15, 20}

InitSize ==
  /\ InitOrderPath
  /\ InitVolBlocked
  /\ InitNet
  /\ InitLater
  /\ sized \in [max_notional_per_trade : MaxNotionals, equity : Equities,
                confidence : Confidences, stop_distance_pct : StopDistances,
                size_multiplier : SizeMultipliers, done : {FALSE}, result : {<<0, 0>>}]
  /\ validated = NoValidated

\* A call of position_size.
PositionSizeCall ==
  /\ ~sized.done
  /\ sized' = [sized EXCEPT
                 !.done = TRUE,
                 !.result = PositionSize(sized.max_notional_per_trade, sized.equity,
                                         sized.confidence, sized.stop_distance_pct,
                                         sized.size_multiplier)]
  /\ UNCHANGED <<now, risk, cache, call, req, last, prev, ncalls, quantized, vol_blocked,
                 validated, adapterVars, wsVars, laterVars>>

NextSize == PositionSizeCall

SpecSize == InitSize /\ [][NextSize]_vars

\* ------------------------------------------------- SlippageModel.validate
\* Arguments of validate, in hundredths of a basis point.
ExpectedBps == {0, 700, 701, 800, 801, 1400, 1401}
SpreadBps == {0, 1500, 1501}
EdgeBps == {0 - 100, 0, 1000, 2000}

InitValidate ==
  /\ InitOrderPath
  /\ InitVolBlocked
  /\ InitNet
  /\ InitLater
  /\ sized = NoSized
  /\ validated \in [expected_bps : ExpectedBps, spread_bps : SpreadBps,
                    expected_edge_bps : EdgeBps, done : {FALSE}, result : {<<FALSE, "">>}]

\* A call of validate.
ValidateCall ==
  /\ ~validated.done
  /\ validated' = [validated EXCEPT
                     !.done = TRUE,
                     !.result = Validate(validated.expected_bps, validated.spread_bps,
                                         validated.expected_edge_bps)]
  /\ UNCHANGED <<now, risk, cache, call, req, last, prev, ncalls, quantized, vol_blocked,
                 sized, adapterVars, wsVars, laterVars>>

NextValidate == ValidateCall

SpecValidate == InitValidate /\ [][NextValidate]_vars

\* ------------------------------------------------------- ExchangeAdapter
\* Number of adapter calls in one behaviour.
MaxAdapterCalls == 3

Modes == {"DEMO", "REAL"}
\* server_time - local_time of a time-sync answer, in milliseconds.
Offsets == {0 - 5, 0, 7}
\* What a request raises: a ClientResponseError with the exchange's
\* timestamp code, one with another code, and an error that is no
\* ClientResponseError.
Excs == {"ClientResponseError:-1021", "ClientResponseError:-2019", "TimeoutError"}
IsClientResponseError(exc) == exc # "TimeoutError"
\* _is_time_sync_error that takes every code for the timestamp code.
IsTimeSyncErrorAnyCode(exc) == TRUE

\* _is_time_sync_error
IsTimeSyncError(exc) == exc = "ClientResponseError:-1021"

\* TimeSync.set_offset with every offset stored as the DEMO one.
SetOffsetDemoOnly(time_sync, mode, offset_ms) ==
  [time_sync EXCEPT !.demo_offset_ms = offset_ms]

\* TimeSync.set_offset
SetOffset(time_sync, mode, offset_ms) ==
  IF mode = "DEMO" THEN [time_sync EXCEPT !.demo_offset_ms = offset_ms]
                   ELSE [time_sync EXCEPT !.real_offset_ms = offset_ms]

\* TimeSync.get_offset
GetOffset(time_sync, mode) ==
  IF mode = "DEMO" THEN time_sync.demo_offset_ms ELSE time_sync.real_offset_ms

\* _require_keys that looks at the key only.
RequireKeysKeyOnly(a) == a.api_key = ""

\* _require_keys: TRUE when it raises NotConfiguredError.
RequireKeys(a) == a.api_key = "" \/ a.api_secret = ""

\* The call sends its request (client.get or client.post, signed).
SendRequest(s) == [s EXCEPT !.attempts = Append(@, <<s.method, s.path>>)]

\* _signed_get and _signed_post up to their first await.
SignedCall(op, method, path) ==
  /\ signed.pc = "idle"
  /\ nadapter < MaxAdapterCalls
  /\ nadapter' = nadapter + 1
  /\ LET s == [NoSigned EXCEPT !.op = op, !.method = method, !.path = path]
     IN IF RequireKeys(adapter)
          THEN /\ signed' = [s EXCEPT !.outcome = "NotConfiguredError",
                                      !.raised_by = "_require_keys"]
               /\ adapter' = adapter
          ELSE LET offset == GetOffset(adapter.time_sync, adapter.mode)
               IN /\ adapter' = [adapter EXCEPT !.time_offset_ms = offset]
                  /\ signed' = IF offset = 0
                                 THEN [s EXCEPT !.pc = "presync", !.syncs = 1]
                                 ELSE [SendRequest(s) EXCEPT !.pc = "first"]
  /\ UNCHANGED <<now, risk, cache, call, req, last, prev, ncalls, quantized, vol_blocked,
                 wsVars, pureVars, laterVars>>

SignedGet(path) == SignedCall("_signed_get", "GET", path)

SignedPost(path) == SignedCall("_signed_post", "POST", path)

\* sync_time called by itself, up to its await.
SyncTime ==
  /\ signed.pc = "idle"
  /\ nadapter < MaxAdapterCalls
  /\ nadapter' = nadapter + 1
  /\ signed' = [NoSigned EXCEPT !.op = "sync_time", !.pc = "sync", !.syncs = 1]
  /\ UNCHANGED <<now, risk, cache, call, req, last, prev, ncalls, quantized, vol_blocked,
                 adapter, wsVars, pureVars, laterVars>>

\* The adapter after switch_mode(mode).
SwitchedTo(a, mode) ==
  [a EXCEPT !.mode = mode,
            !.base_url = IF mode = "DEMO" THEN "TESTNET_REST" ELSE "LIVE_REST"]

\* switch_mode; it does not await, and any task may call it.
SwitchMode(mode) ==
  /\ adapter' = SwitchedTo(adapter, mode)
  /\ UNCHANGED <<now, risk, cache, call, req, last, prev, ncalls, quantized, vol_blocked,
                 signed, nadapter, wsVars, pureVars, laterVars>>

\* ensure_mode up to the await of its sync_time.
EnsureMode(mode) ==
  /\ signed.pc = "idle"
  /\ nadapter < MaxAdapterCalls
  /\ nadapter' = nadapter + 1
  /\ LET a == IF mode # adapter.mode THEN SwitchedTo(adapter, mode) ELSE adapter
     IN adapter' = [a EXCEPT !.time_offset_ms = GetOffset(a.time_sync, a.mode)]
  /\ signed' = [NoSigned EXCEPT !.op = "ensure_mode", !.pc = "sync", !.syncs = 1]
  /\ UNCHANGED <<now, risk, cache, call, req, last, prev, ncalls, quantized, vol_blocked,
                 wsVars, pureVars, laterVars>>

\* The time request of sync_time is answered: the offset is stored for the
\* mode the adapter is in now and given to the client; a signed call goes
\* on to send its request.
SyncReturns(offset) ==
  /\ signed.pc \in {"presync", "resync", "sync"}
  /\ adapter' = [adapter EXCEPT !.time_sync = SetOffset(@, adapter.mode, offset),
                                !.time_offset_ms = offset]
  /\ LET s == [signed EXCEPT !.synced = @ + 1]
     IN signed' = CASE signed.pc = "presync" -> [SendRequest(s) EXCEPT !.pc = "first"]
                    [] signed.pc = "resync" -> [SendRequest(s) EXCEPT !.pc = "retry"]
                    [] OTHER -> [s EXCEPT !.pc = "idle", !.outcome = "ok"]
  /\ UNCHANGED <<now, risk, cache, call, req, last, prev, ncalls, quantized, vol_blocked,
                 nadapter, wsVars, pureVars, laterVars>>

\* The time request of sync_time raises: sync_time re-raises, and so does
\* the call that awaited it.
SyncRaises(exc) ==
  /\ signed.pc \in {"presync", "resync", "sync"}
  /\ signed' = [signed EXCEPT !.pc = "idle", !.outcome = exc, !.raised_by = "sync_time"]
  /\ UNCHANGED <<now, risk, cache, call, req, last, prev, ncalls, quantized, vol_blocked,
                 adapter, nadapter, wsVars, pureVars, laterVars>>

\* The signed request is answered.
RequestReturns ==
  /\ signed.pc \in {"first", "retry"}
  /\ signed' = [signed EXCEPT !.pc = "idle", !.outcome = "ok"]
  /\ UNCHANGED <<now, risk, cache, call, req, last, prev, ncalls, quantized, vol_blocked,
                 adapter, nadapter, wsVars, pureVars, laterVars>>

\* The signed request raises.  The first attempt's ClientResponseError with
\* the timestamp code starts sync_time; everything else is raised to the
\* caller.
RequestRaises(exc) ==
  /\ signed.pc \in {"first", "retry"}
  /\ signed' =
       IF signed.pc = "first" /\ IsClientResponseError(exc) /\ IsTimeSyncError(exc)
         THEN [signed EXCEPT !.pc = "resync", !.first_error = exc,
                             !.syncs = @ + 1, !.resyncs = @ + 1]
         ELSE [signed EXCEPT !.pc = "idle", !.outcome = exc, !.raised_by = "request",
                             !.first_error = IF signed.pc = "first" THEN exc ELSE @]
  /\ UNCHANGED <<now, risk, cache, call, req, last, prev, ncalls, quantized, vol_blocked,
                 adapter, nadapter, wsVars, pureVars, laterVars>>

\* The adapters a caller constructs.
InitAdapters ==
  /\ InitOrderPath
  /\ InitVolBlocked
  /\ InitWs
  /\ InitPure
  /\ InitLater
  /\ InitSigned
  /\ adapter \in {NewExchangeAdapter(mode, api_key, api_secret) :
                    mode \in Modes, api_key \in {"", "key"}, api_secret \in {"", "secret"}}

NextAdapter ==
  \/ SignedGet("/fapi/v2/account")
  \/ SignedPost("/fapi/v1/order")
  \/ SyncTime
  \/ \E mode \in Modes : SwitchMode(mode)
  \/ \E mode \in Modes : EnsureMode(mode)
  \/ \E offset \in Offsets : SyncReturns(offset)
  \/ \E exc \in Excs : SyncRaises(exc)
  \/ RequestReturns
  \/ \E exc \in Excs : RequestRaises(exc)

SpecAdapter == InitAdapters /\ [][NextAdapter]_vars

\* ------------------------------------------------------- BinanceWsClient
\* Largest number of failures in a row that a consume call meets.
MaxFailures == 7

\* backoff = 1.0 at the start of consume and after a connection, and the
\* 30.0 of min(backoff * 2.0, 30.0), in seconds.
BackoffStart == 1
BackoffCap == 30

\* backoff = min(backoff * 2.0, 30.0)
NextBackoff(backoff) == IF backoff * 2 < BackoffCap THEN backoff * 2 ELSE BackoffCap

\* Where a consume call is after the test of its while loop.
LoopTest(running) == IF running THEN "connecting" ELSE "returned"

\* consume(stream, on_message) up to the await of websockets.connect.
Consume(stream) ==
  /\ consumers[stream].pc = "unstarted"
  /\ ws' = [ws EXCEPT !.running = TRUE]
  /\ consumers' = [consumers EXCEPT ![stream] =
                     [pc |-> "connecting", backoff |-> BackoffStart, failures |-> 0,
                      stopped |-> FALSE]]
  /\ UNCHANGED <<now, risk, cache, call, req, last, prev, ncalls, quantized, vol_blocked,
                 adapterVars, pureVars, laterVars>>

\* websockets.connect returns a connection.
Connected(stream) ==
  /\ consumers[stream].pc = "connecting"
  /\ consumers' = [consumers EXCEPT ![stream].pc = "connected",
                                    ![stream].backoff = BackoffStart,
                                    ![stream].failures = 0]
  /\ UNCHANGED <<now, risk, cache, call, req, last, prev, ncalls, quantized, vol_blocked,
                 adapterVars, ws, pureVars, laterVars>>

\* websockets.connect, the connection or on_message raises an Exception:
\* the call sleeps its backoff.
Disconnected(stream) ==
  /\ consumers[stream].pc \in {"connecting", "connected"}
  /\ consumers[stream].failures < MaxFailures
  /\ consumers' = [consumers EXCEPT ![stream].pc = "sleeping", ![stream].failures = @ + 1]
  /\ UNCHANGED <<now, risk, cache, call, req, last, prev, ncalls, quantized, vol_blocked,
                 adapterVars, ws, pureVars, laterVars>>

\* asyncio.sleep(backoff) returns: the backoff grows and the loop tests
\* _running.
Slept(stream) ==
  /\ consumers[stream].pc = "sleeping"
  /\ consumers' = [consumers EXCEPT ![stream].pc = LoopTest(ws.running),
                                    ![stream].backoff = NextBackoff(@)]
  /\ UNCHANGED <<now, risk, cache, call, req, last, prev, ncalls, quantized, vol_blocked,
                 adapterVars, ws, pureVars, laterVars>>

\* The connection ends without an exception: the loop tests _running.
ConnectionEnds(stream) ==
  /\ consumers[stream].pc = "connected"
  /\ consumers' = [consumers EXCEPT ![stream].pc = LoopTest(ws.running)]
  /\ UNCHANGED <<now, risk, cache, call, req, last, prev, ncalls, quantized, vol_blocked,
                 adapterVars, ws, pureVars, laterVars>>

\* stop(); every consume call that has begun has seen a stop() from now on.
Stop ==
  /\ ws' = [running |-> FALSE]
  /\ consumers' = [s \in Streams |->
                     IF consumers[s].pc = "unstarted" THEN consumers[s]
                     ELSE [consumers[s] EXCEPT !.stopped = TRUE]]
  /\ UNCHANGED <<now, risk, cache, call, req, last, prev, ncalls, quantized, vol_blocked,
                 adapterVars, pureVars, laterVars>>

NextWs ==
  \/ \E stream \in Streams : Consume(stream)
  \/ \E stream \in Streams : Connected(stream)
  \/ \E stream \in Streams : Disconnected(stream)
  \/ \E stream \in Streams : Slept(stream)
  \/ \E stream \in Streams : ConnectionEnds(stream)
  \/ Stop

SpecWs == Init /\ [][NextWs]_vars

\* --------------------------------------------------- WebsocketSupervisor
\* Last reading of the websocket client's clock.
MaxWsTime == 3
\* Largest number of consume tasks created for one stream.
MaxTasks == 3

\* BinanceWsClient.stale_seconds, in clock readings.
stale_seconds == 1

earlierVars ==
  <<now, risk, cache, call, req, last, prev, ncalls, quantized, vol_blocked, adapterVars,
    wsVars, pureVars>>
outsideSupervisor == <<earlierVars, busVars, smVars, stratVars, featVars, restVars>>

\* stale_streams: the streams with an entry in stream_last_update that is
\* more than stale_seconds old.
StaleStreams(last_update, t) ==
  {s \in Streams : last_update[s] # NoTime /\ t - last_update[s] > stale_seconds}

\* A restart of every stream, stale or not.
RestartEvery(tasks, stale) == [s \in Streams |-> tasks[s] + 1]

\* for stream in stale: create_task(consume(stream, on_message))
RestartStale(tasks, stale) ==
  [s \in Streams |-> IF s \in stale THEN tasks[s] + 1 ELSE tasks[s]]

\* start(streams, on_message): a consume task per stream, and the monitor.
SupervisorStart(streams) ==
  /\ ~supervisor.running
  /\ \A s \in Streams : supervisor.tasks[s] = 0
  /\ supervisor' = [supervisor EXCEPT
                      !.running = TRUE,
                      !.tasks = [s \in Streams |-> IF s \in streams THEN 1 ELSE 0],
                      !.started_at = [s \in Streams |->
                                        IF s \in streams THEN wsclock ELSE NoTime]]
  /\ UNCHANGED <<stream_last_update, wsclock, outsideSupervisor>>

\* A consume task of the stream receives a message.
StreamMessage(stream) ==
  /\ supervisor.running
  /\ supervisor.tasks[stream] >= 1
  /\ stream_last_update' = [stream_last_update EXCEPT ![stream] = wsclock]
  /\ UNCHANGED <<supervisor, wsclock, outsideSupervisor>>

\* Time passes.
WsTick ==
  /\ wsclock < MaxWsTime
  /\ wsclock' = wsclock + 1
  /\ UNCHANGED <<supervisor, stream_last_update, outsideSupervisor>>

\* One cycle of _monitor_staleness after its sleep.
MonitorStaleness ==
  /\ supervisor.running
  /\ LET stale == StaleStreams(stream_last_update, wsclock)
     IN /\ \A s \in stale : supervisor.tasks[s] < MaxTasks
        /\ supervisor' = [supervisor EXCEPT
                            !.reported = stale,
                            !.tasks = RestartStale(@, stale)]
  /\ UNCHANGED <<stream_last_update, wsclock, outsideSupervisor>>

\* WebsocketSupervisor.stop: the tasks are cancelled.
SupervisorStop ==
  /\ supervisor.running
  /\ supervisor' = [supervisor EXCEPT !.running = FALSE]
  /\ UNCHANGED <<stream_last_update, wsclock, outsideSupervisor>>

NextSupervisor ==
  \/ \E streams \in (SUBSET Streams) \ {{}} : SupervisorStart(streams)
  \/ \E stream \in Streams : StreamMessage(stream)
  \/ WsTick
  \/ MonitorStaleness
  \/ SupervisorStop

SpecSupervisor == Init /\ [][NextSupervisor]_vars

\* -------------------------------------------------------- EngineEventBus
\* Number of publish calls in one behaviour.
MaxPublished == 4

\* EngineEventBus(history_limit), and the arguments of subscribe and
\* snapshot.
history_limit == 2
MaxSizes == {0, 1, 2}
Limits == 0..3

outsideBus == <<earlierVars, supVars, smVars, stratVars, featVars, restVars>>

\* deque(maxlen).append
DequeAppend(d, maxlen, x) ==
  IF maxlen = 0 THEN d
  ELSE IF Len(d) >= maxlen THEN Append(Tail(d), x)
  ELSE Append(d, x)

\* A queue that is never full.
QueueFullNever(q) == FALSE

\* asyncio.Queue.full: a queue with maxsize <= 0 is never full.
QueueFull(q) == q.maxsize > 0 /\ Len(q.items) >= q.maxsize

\* What publish does with one subscriber queue: a full queue loses its
\* oldest item, then put_nowait adds the event, or raises QueueFull and
\* the queue is left as it is.
Deliver(q, event) ==
  LET got == IF QueueFull(q) /\ q.items # <<>> THEN [q EXCEPT !.items = Tail(@)] ELSE q
  IN IF q.maxsize > 0 /\ Len(got.items) >= q.maxsize THEN got
     ELSE [got EXCEPT !.items = Append(@, event)]

\* list(history)[-limit:]
Slice(history, limit) ==
  LET n == Len(history)
      start == IF limit = 0 THEN 0
               ELSE IF limit > 0 THEN (IF n - limit > 0 THEN n - limit ELSE 0)
               ELSE (IF 0 - limit < n THEN 0 - limit ELSE n)
  IN SubSeq(history, start + 1, n)

\* publish; the event is known by its number.
Publish ==
  /\ busobs.published < MaxPublished
  /\ LET event == busobs.published + 1
     IN /\ bus' = [history |-> DequeAppend(bus.history, history_limit, event),
                   queues |-> [q \in Subscribers |->
                                 IF bus.queues[q].subscribed
                                   THEN Deliver(bus.queues[q], event)
                                   ELSE bus.queues[q]]]
        /\ busobs' = [busobs EXCEPT !.published = event,
                                    !.since_clear = Append(@, event)]
  /\ UNCHANGED outsideBus

\* subscribe(maxsize): a new, empty queue joins _subscribers.
Subscribe(q, maxsize) ==
  /\ ~bus.queues[q].subscribed
  /\ bus.queues[q].items = <<>>
  /\ bus' = [bus EXCEPT !.queues[q] =
               [subscribed |-> TRUE, maxsize |-> maxsize, items |-> <<>>]]
  /\ busobs' = [busobs EXCEPT !.unsubscribed = @ \ {q}]
  /\ UNCHANGED outsideBus

\* unsubscribe(queue) discards nothing.
UnsubscribeKeepsQueue(q) ==
  /\ bus' = bus
  /\ busobs' = [busobs EXCEPT !.unsubscribed = @ \cup {q}]
  /\ UNCHANGED outsideBus

\* unsubscribe(queue): set.discard, of a queue that is subscribed or not.
\* busobs.unsubscribed keeps the queues whose unsubscribe has returned.
Unsubscribe(q) ==
  /\ bus' = [bus EXCEPT !.queues[q].subscribed = FALSE]
  /\ busobs' = [busobs EXCEPT !.unsubscribed = @ \cup {q}]
  /\ UNCHANGED outsideBus

\* The subscriber takes the oldest item of its queue.
QueueGet(q) ==
  /\ bus.queues[q].items # <<>>
  /\ bus' = [bus EXCEPT !.queues[q].items = Tail(@)]
  /\ UNCHANGED <<busobs, outsideBus>>

\* snapshot(limit)
Snapshot(limit) ==
  /\ busobs' = [busobs EXCEPT !.snapshot =
                  [called |-> TRUE, limit |-> limit, result |-> Slice(bus.history, limit)]]
  /\ UNCHANGED <<bus, outsideBus>>

\* clear_history
ClearHistory ==
  /\ bus' = [bus EXCEPT !.history = <<>>]
  /\ busobs' = [busobs EXCEPT !.since_clear = <<>>]
  /\ UNCHANGED outsideBus

NextBus ==
  \/ Publish
  \/ \E q \in Subscribers, maxsize \in MaxSizes : Subscribe(q, maxsize)
  \/ \E q \in Subscribers : Unsubscribe(q)
  \/ \E q \in Subscribers : QueueGet(q)
  \/ \E limit \in Limits : Snapshot(limit)
  \/ ClearHistory

SpecBus == Init /\ [][NextBus]_vars

\* --------------------------------------------- ProbabilisticStateMachine
\* Number of update calls a machine gets in one behaviour.
MaxUpdates == 5

\* Scores, ratios and raw values are integers in units of 0.2 (One is
\* 1.0); wick_proxy is in units of 0.004, so that wick_proxy * 50 is in
\* units of 0.2.  ema_alpha is ema_alpha_num / ema_alpha_den.
One == 5
ema_alpha_num == 1
ema_alpha_den == 4

outsideMachines == <<earlierVars, supVars, busVars, stratVars, featVars, restVars>>

\* Arguments of update: a calm market, an impulse with a wick, an
\* exhaustion with and without confirmed structure, and an impulse score
\* of 2.0 with everything detected.
UpdateArgs ==
  { [impulse_score |-> 0, impulse_detected |-> FALSE, exhaustion_detected |-> FALSE,
     exhaustion_ratio |-> 5, wick_proxy |-> 0, structure_confirmed |-> FALSE],
    [impulse_score |-> 5, impulse_detected |-> TRUE, exhaustion_detected |-> FALSE,
     exhaustion_ratio |-> 5, wick_proxy |-> 5, structure_confirmed |-> FALSE],
    [impulse_score |-> 0, impulse_detected |-> FALSE, exhaustion_detected |-> TRUE,
     exhaustion_ratio |-> 0, wick_proxy |-> 0, structure_confirmed |-> TRUE],
    [impulse_score |-> 0, impulse_detected |-> FALSE, exhaustion_detected |-> TRUE,
     exhaustion_ratio |-> 0, wick_proxy |-> 0, structure_confirmed |-> FALSE],
    [impulse_score |-> 10, impulse_detected |-> TRUE, exhaustion_detected |-> TRUE,
     exhaustion_ratio |-> 0, wick_proxy |-> 0, structure_confirmed |-> FALSE] }

\* raw of update (state_machine.py:31-37)
Raw(a) ==
  [s \in States |->
     CASE s = "BUILDUP" -> Max(0, One - a.impulse_score)
       [] s = "IMPULSE" -> Min(One, a.impulse_score + (IF a.impulse_detected THEN 1 ELSE 0))
       [] s = "CLIMAX" -> Min(One, (a.impulse_score * 4) \div 5 + a.wick_proxy)
       [] s = "EXHAUSTION" ->
            Min(One, ((One - a.exhaustion_ratio) * 4) \div 5
                       + (IF a.exhaustion_detected THEN 1 ELSE 0))
       [] OTHER -> IF a.structure_confirmed THEN 3 ELSE 1]

SumOver(f) ==
  f["BUILDUP"] + f["IMPULSE"] + f["CLIMAX"] + f["EXHAUSTION"] + f["REBALANCE"]

\* A total that is 1.0 whatever the raw values are.
TotalAlwaysOne(raw) == One

\* total = sum(raw.values()) or 1.0
Total(raw) == IF SumOver(raw) = 0 THEN One ELSE SumOver(raw)

\* The confidences in lowest terms.
Lowest(conf) ==
  LET g == Gcd(conf.den,
               Gcd(conf.num["BUILDUP"],
                   Gcd(conf.num["IMPULSE"],
                       Gcd(conf.num["CLIMAX"],
                           Gcd(conf.num["EXHAUSTION"], conf.num["REBALANCE"])))))
  IN [num |-> [s \in States |-> conf.num[s] \div g], den |-> conf.den \div g]

\* update: (1 - ema_alpha) * confidence + ema_alpha * raw / total for every
\* state, as exact fractions over one denominator.
Update(conf, a) ==
  LET raw == Raw(a)
      total == Total(raw)
  IN Lowest([num |-> [s \in States |->
                        (ema_alpha_den - ema_alpha_num) * conf.num[s] * total
                          + ema_alpha_num * raw[s] * conf.den],
             den |-> ema_alpha_den * conf.den * total])

\* max(items, key) that keeps the last of the largest.
RECURSIVE ArgMaxLast(_, _, _)
ArgMaxLast(conf, i, best) ==
  IF i > Len(MarketState) THEN best
  ELSE ArgMaxLast(conf, i + 1,
                  IF conf.num[MarketState[i]] >= conf.num[MarketState[best]] THEN i ELSE best)

\* max(self.confidences.items(), key=value) from item i on: the item seen
\* first stays the best unless a later one is larger.
RECURSIVE ArgMax(_, _, _)
ArgMax(conf, i, best) ==
  IF i > Len(MarketState) THEN best
  ELSE ArgMax(conf, i + 1,
              IF conf.num[MarketState[i]] > conf.num[MarketState[best]] THEN i ELSE best)

\* current_state
CurrentState(conf) == MarketState[ArgMax(conf, 2, 1)]

\* The same update on every instance at once, as if they shared one dict.
UpdateShared(ms, i, a) == [j \in Instances |-> Update(ms[i], a)]

\* update on instance i.
UpdateInstance(ms, i, a) == [ms EXCEPT ![i] = Update(ms[i], a)]

\* An update call on instance i: the next of the calls already made on the
\* other instance, or a new one.
UpdateCall(i, a) ==
  /\ updates.fed[i] < MaxUpdates
  /\ updates.fed[i] < Len(updates.inputs) => a = updates.inputs[updates.fed[i] + 1]
  /\ machines' = UpdateInstance(machines, i, a)
  /\ updates' = [inputs |-> IF updates.fed[i] < Len(updates.inputs)
                              THEN updates.inputs ELSE Append(updates.inputs, a),
                 fed |-> [updates.fed EXCEPT ![i] = @ + 1]]
  /\ UNCHANGED outsideMachines

NextMachines == \E i \in Instances, a \in UpdateArgs : UpdateCall(i, a)

SpecMachines == Init /\ [][NextMachines]_vars

\* ------------------------------------------------------- ReversalStrategy
\* Number of evaluate calls in one behaviour.
MaxEvaluations == 3

outsideStrategy == <<earlierVars, supVars, busVars, smVars, featVars, restVars>>

\* StrategyConfig.exhaustion_confidence_threshold in hundredths: a low
\* one, and the default 0.55.
Thresholds == {10, 55}

\* The symbol whose machine the strategy keeps.
StrategySymbols == {"BTCUSDT"}

\* impulse_falling is conf[IMPULSE] < impulse_falling_num / impulse_falling_den
impulse_falling_num == 7
impulse_falling_den == 20

\* The features dicts passed to evaluate: a calm market, an impulse with a
\* wick, and an exhaustion, each with a price that fell, stayed or rose.
\* price_change_pct is in units of 1 percent.
Features ==
  { [impulse_score |-> f[1], impulse_detected |-> f[2], exhaustion_detected |-> f[3],
     exhaustion_ratio |-> f[4], wick_proxy |-> f[5], price_change_pct |-> p] :
      f \in { <<0, FALSE, FALSE, 5, 0>>, <<5, TRUE, FALSE, 5, 5>>, <<0, FALSE, TRUE, 0, 0>> },
      p \in {0 - 1, 0, 1} }

\* floor(den * p / q), computed without a product of den.
FloorOf(den, p, q) == p * (den \div q) + (p * (den % q)) \div q

\* num / den > p / q
Above(num, den, p, q) == num > FloorOf(den, p, q)

\* num / den < p / q
Below(num, den, p, q) ==
  num < FloorOf(den, p, q) + (IF (p * (den % q)) % q = 0 THEN 0 ELSE 1)

\* ReversalStrategy(config)
NewReversalStrategy(threshold) ==
  /\ ~strategy.constructed
  /\ strategy' = [constructed |-> TRUE, exhaustion_confidence_threshold |-> threshold,
                  machine_by_symbol |-> <<>>, evaluations |-> 0]
  /\ UNCHANGED <<strategy_signal, outsideStrategy>>

\* machine_by_symbol.setdefault(symbol, ProbabilisticStateMachine())
MachineOf(by_symbol, symbol) ==
  IF symbol \in DOMAIN by_symbol THEN by_symbol[symbol] ELSE NewConfidences

\* evaluate(symbol, features, structure_confirmed, regime_ok): the update
\* of the symbol's machine, then the gates, the side and the reason codes.
Evaluate(symbol, features, structure_confirmed, regime_ok) ==
  /\ strategy.constructed
  /\ strategy.evaluations < MaxEvaluations
  /\ LET conf == Update(MachineOf(strategy.machine_by_symbol, symbol),
                        [impulse_score |-> features.impulse_score,
                         impulse_detected |-> features.impulse_detected,
                         exhaustion_detected |-> features.exhaustion_detected,
                         exhaustion_ratio |-> features.exhaustion_ratio,
                         wick_proxy |-> features.wick_proxy,
                         structure_confirmed |-> structure_confirmed])
         threshold == strategy.exhaustion_confidence_threshold
         impulse_falling ==
           Below(conf.num["IMPULSE"], conf.den, impulse_falling_num, impulse_falling_den)
         exhaustion_above == Above(conf.num["EXHAUSTION"], conf.den, threshold, 100)
         blocked == IF regime_ok THEN <<>> ELSE <<"regime_filter_block">>
         emits == exhaustion_above /\ impulse_falling /\ structure_confirmed /\ regime_ok
     IN /\ strategy' =
             [strategy EXCEPT
                !.machine_by_symbol =
                   [s \in DOMAIN @ \cup {symbol} |-> IF s = symbol THEN conf ELSE @[s]],
                !.evaluations = @ + 1]
        /\ strategy_signal' =
             [made |-> TRUE, symbol |-> symbol, features |-> features,
              structure_confirmed |-> structure_confirmed, regime_ok |-> regime_ok,
              exhaustion_above |-> exhaustion_above, impulse_falling |-> impulse_falling,
              state |-> CurrentState(conf),
              side |-> IF emits
                         THEN (IF features.price_change_pct > 0 THEN "SELL" ELSE "BUY")
                         ELSE "None",
              reason_codes |->
                IF emits
                  THEN blocked \o <<"exhaustion_confident", "impulse_falling",
                                    "structure_confirmed">>
                  ELSE IF ~exhaustion_above
                         THEN blocked \o <<"exhaustion_low_confidence">>
                         ELSE blocked]
  /\ UNCHANGED outsideStrategy

NextStrategy ==
  \/ \E threshold \in Thresholds : NewReversalStrategy(threshold)
  \/ \E symbol \in StrategySymbols, features \in Features,
        structure_confirmed \in BOOLEAN, regime_ok \in BOOLEAN :
       Evaluate(symbol, features, structure_confirmed, regime_ok)

SpecStrategy == Init /\ [][NextStrategy]_vars

\* The four gates of the evaluate call made last.
AllGatesPass ==
  /\ strategy_signal.exhaustion_above
  /\ strategy_signal.impulse_falling
  /\ strategy_signal.structure_confirmed
  /\ strategy_signal.regime_ok

\* A side is returned exactly when the four gates pass.
SideIffAllGatesPass == strategy_signal.made => (strategy_signal.side # "None" <=> AllGatesPass)

\* C28: evaluate returns a side if and only if EXHAUSTION confidence is
\* above the threshold, IMPULSE confidence is below 0.35, structure is
\* confirmed and the regime filter passes; the side is SELL exactly when
\* price_change_pct > 0 and BUY exactly when price_change_pct < 0.
C28_SideFollowsGatesAndPrice ==
  strategy_signal.made =>
    /\ strategy_signal.side # "None" <=> AllGatesPass
    /\ strategy_signal.side # "None" =>
         /\ strategy_signal.side = "SELL" <=> strategy_signal.features.price_change_pct > 0
         /\ strategy_signal.side = "BUY" <=> strategy_signal.features.price_change_pct < 0

Has(codes, code) == \E i \in 1..Len(codes) : codes[i] = code

\* Every evaluation that failed the regime gate or the exhaustion gate
\* carries that gate's code.
RegimeAndExhaustionRecorded ==
  strategy_signal.made =>
    /\ ~strategy_signal.regime_ok => Has(strategy_signal.reason_codes, "regime_filter_block")
    /\ ~strategy_signal.exhaustion_above => Has(strategy_signal.reason_codes, "exhaustion_low_confidence")

\* C29: an evaluation that returns no side has a reason code for every
\* gate that failed, so its reason_codes is never empty.
C29_EveryFailedGateRecorded ==
  (strategy_signal.made /\ strategy_signal.side = "None") =>
    /\ strategy_signal.reason_codes # <<>>
    /\ ~strategy_signal.regime_ok => Has(strategy_signal.reason_codes, "regime_filter_block")
    /\ ~strategy_signal.exhaustion_above => Has(strategy_signal.reason_codes, "exhaustion_low_confidence")

\* ------------------------------------------- TickFeatureEngine: volume_z
outsideFeatures == <<earlierVars, supVars, busVars, smVars, stratVars, restVars>>

\* The buckets of on_trade: range(10, 121, 10), in seconds before the tick.
BucketSeconds == 10
WindowSeconds == 120
BucketEnds == {i \in BucketSeconds..WindowSeconds : i % BucketSeconds = 0}

\* _robust_zscore returns 0.0 for fewer values than this.
MinValues == 10

\* 0.6745 is ZFactorNum / ZFactorDen.
ZFactorNum == 6745
ZFactorDen == 10000

\* The quantity of the tick being handled.
TickQtys == {1, 50}

\* The trades of the symbol's window before the tick being handled: at
\* most one in each 10 seconds, 5, 15, ... 115 seconds old, all of
\* quantity 1 or the older the larger.  A trade is its age in seconds and
\* its qty.
TradeWindows ==
  { {[age |-> i - 5, qty |-> IF rising THEN i \div BucketSeconds ELSE 1] : i \in ends} :
      ends \in SUBSET BucketEnds, rising \in BOOLEAN }

\* The lists passed to _robust_zscore directly: 9 and 10 values, all 1 or
\* rising.
ValueLists ==
  { [k \in 1..n |-> IF rising THEN k ELSE 1] : n \in {MinValues - 1, MinValues},
                                              rising \in BOOLEAN }

\* sum(t.qty for t in ts)
RECURSIVE SumQty(_)
SumQty(ts) ==
  IF ts = {} THEN 0 ELSE LET t == CHOOSE t \in ts : TRUE IN t.qty + SumQty(ts \ {t})

\* sorted(values)
RECURSIVE Sorted(_)
Sorted(values) ==
  IF values = <<>> THEN <<>>
  ELSE LET rest == Sorted(Tail(values))
           v == Head(values)
           below == Cardinality({k \in 1..Len(rest) : rest[k] < v})
       IN SubSeq(rest, 1, below) \o <<v>> \o SubSeq(rest, below + 1, Len(rest))

\* Twice statistics.median(values): the middle value of an odd number of
\* values, the mean of the two middle values of an even number.
Median2(values) ==
  LET s == Sorted(values)
      n == Len(s)
  IN IF n % 2 = 1 THEN 2 * s[(n + 1) \div 2] ELSE s[n \div 2] + s[n \div 2 + 1]

AbsOf(x) == IF x < 0 THEN 0 - x ELSE x

\* A fraction in lowest terms with the sign in the numerator.
Fraction(num, den) ==
  IF num < 0 THEN <<0 - Ratio(0 - num, den)[1], Ratio(0 - num, den)[2]>> ELSE Ratio(num, den)

Zero == <<0, 1>>

\* _robust_zscore(value, values).  med is med2 / 2, the deviations are
\* dev2 / 2 and mad is mad4 / 4, so 0.6745 * (value - med) / mad is
\* 0.6745 * 2 * (2 * value - med2) / mad4.
RobustZscore(value, values) ==
  IF Len(values) < MinValues THEN Zero
  ELSE LET med2 == Median2(values)
           dev2 == [k \in 1..Len(values) |-> AbsOf(2 * values[k] - med2)]
           mad4 == Median2(dev2)
       IN IF mad4 = 0 THEN Zero
          ELSE Fraction(ZFactorNum * 2 * (2 * value - med2), ZFactorDen * mad4)

\* The bucket of on_trade that ends i seconds before the tick:
\* tick.ts_ms - i * 1000 <= t.ts_ms < tick.ts_ms - (i - 10) * 1000
Bucket(trades, i) == {t \in trades : t.age <= i /\ t.age > i - BucketSeconds}

\* vols_10s of on_trade: the sum of every bucket, the most recent first.
Vols10s(trades) ==
  [k \in 1..(WindowSeconds \div BucketSeconds) |-> SumQty(Bucket(trades, k * BucketSeconds))]

\* recent(10): the trades of the last 10 seconds, the tick itself included.
Recent(trades, sec) == {t \in trades : t.age <= sec}

\* volume_z of on_trade(tick), the window holding earlier before the call.
VolumeZ(earlier, qty) ==
  LET trades == earlier \cup {[age |-> 0, qty |-> qty]}
      volume_10s == SumQty(Recent(trades, BucketSeconds))
  IN RobustZscore(volume_10s, Vols10s(trades))

\* on_trade(tick): the volume_zscore of its FeatureSnapshot.  One call is
\* followed in a behaviour.
OnTrade(earlier, qty) ==
  /\ ~zscored.made
  /\ zscored' = [made |-> TRUE, op |-> "on_trade", trades |-> earlier, qty |-> qty,
                 volume_zscore |-> VolumeZ(earlier, qty)]
  /\ UNCHANGED outsideFeatures

\* A call of _robust_zscore(value, values).
RobustZscoreCall(value, values) ==
  /\ ~zscored.made
  /\ zscored' = [made |-> TRUE, op |-> "_robust_zscore", value |-> value, values |-> values,
                 volume_zscore |-> RobustZscore(value, values)]
  /\ UNCHANGED outsideFeatures

NextFeatures ==
  \/ \E earlier \in TradeWindows, qty \in TickQtys : OnTrade(earlier, qty)
  \/ \E value \in TickQtys, values \in ValueLists : RobustZscoreCall(value, values)

SpecFeatures == Init /\ [][NextFeatures]_vars

\* The historical buckets that hold at least one trade.
Populated(trades) == {i \in BucketEnds : Bucket(trades, i) # {}}

\* _robust_zscore returns 0.0 for every value when it gets fewer than 10
\* values.
ShortListGivesZero ==
  (zscored.made /\ zscored.op = "_robust_zscore" /\ Len(zscored.values) < MinValues)
    => zscored.volume_zscore = Zero

\* on_trade gives 0.0 when fewer than 6 buckets hold a trade: the median
\* of the twelve sums and of their deviations is then 0.
FewerThanSixGivesZero ==
  (zscored.made /\ zscored.op = "on_trade" /\ Cardinality(Populated(zscored.trades)) < 6)
    => zscored.volume_zscore = Zero

\* C30: volume_zscore is 0.0 whenever fewer than 10 historical 10-second
\* buckets hold a trade, whatever the current 10-second volume is, and
\* _robust_zscore returns 0.0 for every value when len(values) < 10.
C30_ZeroBelowTenBuckets ==
  /\ (zscored.made /\ zscored.op = "on_trade"
        /\ Cardinality(Populated(zscored.trades)) < MinValues)
       => zscored.volume_zscore = Zero
  /\ (zscored.made /\ zscored.op = "_robust_zscore" /\ Len(zscored.values) < MinValues)
       => zscored.volume_zscore = Zero

\* ------------------------------------------------------ the specifications
Orders ==
  [symbol : Symbols, side : Sides, qty : Qtys, mark_price : Prices,
   symbol_filters : FilterSets]
SignalTimes == {NoTime, 0}

\* The trading loop: place_order calls one after the other, the clock, and
\* between two calls the close of a position that is open.
Next ==
  \/ \E order \in Orders, market \in Markets, signal_time \in SignalTimes :
       /\ ncalls < MaxCalls
       /\ PlaceOrder(order, market, signal_time)
  \/ SubmitReturns
  \/ \E exc \in Exceptions, jitter \in {JitterMin, JitterMax} : SubmitRaises(exc, jitter)
  \/ NextAttempt
  \/ \E s \in Symbols, pnl_pct \in PnlPcts, released \in Released :
       /\ risk.open_positions_by_symbol[s] > 0
       /\ ApplyTradeClose(s, pnl_pct, released)
  \/ Tick

Spec == Init /\ [][Next]_vars

\* A market in which the slippage validation passes for every order.
CalmMarket ==
  CHOOSE m \in Markets : m.spread_bps <= spread_guard_bps /\ m.depth = 0
                           /\ m.expected_edge_bps >= 2000

\* RiskManager states within the caps: any count of open positions, of the
\* account and of each symbol, that the caps allow.
StartsWithinCaps ==
  {r \in {[NewRiskManager EXCEPT !.open_positions = n,
                                 !.open_positions_by_symbol = c,
                                 !.exposure_by_symbol = e] :
             n \in 0..max_positions,
             c \in [Symbols -> 0..max_positions_per_symbol],
             e \in {[s \in Symbols |-> 0]}} :
     SumExposure(r) <= max_account_exposure}

InitCaps ==
  /\ now = 0
  /\ risk \in StartsWithinCaps
  /\ cache = <<>>
  /\ call = IdleCall
  /\ req = NoReq
  /\ last = NoResult
  /\ prev = NoResult
  /\ ncalls = 0
  /\ quantized = NoQuantize
  /\ InitOutsideOrderPath

\* From a RiskManager within its caps: place_order calls one after the
\* other in a calm market, the clock, and between two calls
\* apply_trade_close with any arguments, of a symbol that holds a position
\* or of one that holds none.
NextCaps ==
  \/ \E order \in Orders :
       /\ ncalls < MaxCalls
       /\ order.symbol_filters.min_notional <= 100
       /\ PlaceOrder(order, CalmMarket, NoTime)
  \/ SubmitReturns
  \/ \E exc \in Exceptions : SubmitRaises(exc, JitterMin)
  \/ NextAttempt
  \/ \E s \in Symbols, pnl_pct \in PnlPcts, released \in {0 - 50, MaxExposure} :
       ApplyTradeClose(s, pnl_pct, released)
  \/ Tick

SpecCaps == InitCaps /\ [][NextCaps]_vars

\* The RiskManager alone, every operation of it called in any order with
\* any arguments.
NextRisk ==
  \/ \E s \in Symbols, n \in Notionals : ApplyTradeOpen(s, n)
  \/ \E s \in Symbols, pnl_pct \in PnlPcts, released \in Notionals \cup {MaxExposure} :
       ApplyTradeClose(s, pnl_pct, released)
  \/ \E realized \in RealizedPcts, unrealized \in UnrealizedPcts :
       UpdatePnl(realized, unrealized)
  \/ \E vol \in Vols : UpdateVolatility(vol, vol_kill_threshold, vol_cooldown_seconds)
  \/ EngageKillSwitch
  \/ ReleaseKillSwitch
  \/ Tick

SpecRisk == Init /\ [][NextRisk]_vars

\* _quantize on its own: any value over any step, and one place_order call
\* that takes the same value as its quantity and the same step as its
\* step_size.
QuantizeValues == (0 - 12)..25
QuantizeSteps == (0 - 1)..11

InitQuantize ==
  /\ now = 0
  /\ risk = NewRiskManager
  /\ cache = <<>>
  /\ call = IdleCall
  /\ req = NoReq
  /\ last = NoResult
  /\ prev = NoResult
  /\ ncalls = 0
  /\ quantized \in [value : QuantizeValues, step : QuantizeSteps, done : {FALSE}, result : {0}]
  /\ InitOutsideOrderPath

QuantizeCall ==
  /\ ~quantized.done
  /\ quantized' = [quantized EXCEPT !.done = TRUE,
                                    !.result = Quantize(quantized.value, quantized.step)]
  /\ UNCHANGED <<now, risk, cache, call, req, last, prev, ncalls>>
  /\ UNCHANGED outsideOrderPath

NextQuantize ==
  \/ QuantizeCall
  \/ \E symbol \in Symbols, side \in Sides, price \in Prices, f \in FilterSets :
       /\ ncalls = 0
       /\ PlaceOrder([symbol |-> symbol, side |-> side, qty |-> quantized.value,
                      mark_price |-> price,
                      symbol_filters |-> [f EXCEPT !.step_size = quantized.step]],
                     CalmMarket, NoTime)
  \/ SubmitReturns
  \/ \E exc \in Exceptions, jitter \in {JitterMin, JitterMax} : SubmitRaises(exc, jitter)
  \/ NextAttempt

SpecQuantize == InitQuantize /\ [][NextQuantize]_vars

\* The volatility block: the trading loop's update_volatility calls, the
\* clock and the kill switch.
NextVolatility ==
  \/ \E vol \in Vols, cooldown \in VolCooldowns :
       RunUpdateVolatility(vol, vol_kill_threshold, cooldown)
  \/ EngageKillSwitch
  \/ ReleaseKillSwitch
  \/ \E s \in Symbols, n \in Notionals : ApplyTradeOpen(s, n)
  \/ Tick

SpecVolatility == Init /\ [][NextVolatility]_vars

\* The idempotency cache: place_order calls one after the other in a calm
\* market, of orders without filters, each call filled, rejected or blocked
\* by the RiskManager.
NextCache ==
  \/ \E order \in Orders :
       /\ ncalls < MaxCacheCalls
       /\ order.symbol_filters.min_notional = 0
       /\ PlaceOrder(order, CalmMarket, NoTime)
  \/ SubmitReturns
  \/ \E exc \in Exceptions : SubmitRaises(exc, JitterMin)
  \/ NextAttempt

SpecCache == Init /\ [][NextCache]_vars

\* Two place_order calls on one ExecutionEngine and RiskManager that may
\* overlap: each runs from await to await, the other may run in between;
\* the kill switch may be engaged at any await.
NextConcurrent ==
  \/ \E order \in Orders :
       /\ ncalls < MaxCalls
       /\ order.symbol_filters.min_notional <= 100
       /\ PlaceOrder(order, CalmMarket, NoTime)
  \/ SubmitReturns
  \/ \E exc \in Exceptions : SubmitRaises(exc, JitterMin)
  \/ NextAttempt
  \/ Resume
  \/ EngageKillSwitch
  \/ Tick

SpecConcurrent == Init /\ [][NextConcurrent]_vars

\* The cooldowns of a RiskManager constructed with any cooldown_seconds and
\* loss_cooldown_seconds: opens and closes in any order, and the clock.
NextCooldown ==
  \/ \E cooldown \in CooldownSettings, loss_cooldown \in CooldownSettings :
       RiskManagerWith(cooldown, loss_cooldown)
  \/ \E s \in Symbols, n \in Notionals : ApplyTradeOpenWith(s, n)
  \/ \E s \in Symbols, pnl_pct \in PnlPcts, released \in Released :
       ApplyTradeCloseWith(s, pnl_pct, released)
  \/ Tick

SpecCooldown == Init /\ [][NextCooldown]_vars

\* ---------------------------------------------------------------- claims
\* r is the largest integer multiple of step that is <= value (value >= 0,
\* step > 0); for step <= 0 it is value itself.
IsRoundedDown(r, value, step) ==
  IF step <= 0 THEN r = value
  ELSE value >= 0 => /\ r % step = 0
                     /\ r <= value
                     /\ value - step < r

\* The quantity and the price a submit_fn call was given are the rounded
\* down quantity and mark price of the order.
SentQuantized(order, sent) ==
  /\ IsRoundedDown(sent[3], order.qty, order.symbol_filters.step_size)
  /\ IsRoundedDown(sent[4], order.mark_price, order.symbol_filters.tick_size)

\* C10: quantization never rounds up.  For value >= 0 and step > 0 the
\* result of _quantize is the largest multiple of step <= value, so
\* value - step < result <= value, and quantize(0.123456, 0.01) is 0.12
\* (here in units of 1e-6); for step <= 0 the value comes back unchanged;
\* and what place_order hands to submit_fn are these quantized values.
C10_QuantizeRoundsDown ==
  /\ quantized.done =>
       IsRoundedDown(quantized.result, quantized.value, quantized.step)
  /\ Quantize(123456, 10000) = 120000
  /\ call.pc # "idle" => SentQuantized(call.order, call.sent)
  /\ last.submits > 0 => SentQuantized(last.order, last.sent)

\* A value strictly between two multiples of the step was quantized, and a
\* submit_fn call got a quantity below the one ordered.
C10_Witness ==
  /\ quantized.done
  /\ quantized.step > 1
  /\ quantized.value > quantized.step
  /\ quantized.result < quantized.value
  /\ last.submits > 0
  /\ last.record.status = "FILLED"
  /\ last.sent[3] < last.order.qty
  /\ last.sent[3] > 0

\* Whether the named check of can_trade fails.
CheckFails(name, r, t, symbol, notional, stale, spread_blocked, slippage_blocked) ==
  CASE name = "kill_switch" -> r.kill_switch
    [] name = "staleness_block" -> stale
    [] name = "spread_block" -> spread_blocked
    [] name = "slippage_block" -> slippage_blocked
    [] name = "volatility_block" -> r.vol_blocked_until # NoTime /\ t < r.vol_blocked_until
    [] name = "daily_loss_circuit_breaker" -> r.loss_today_pct >= max_daily_loss_pct
    [] name = "consecutive_losses_circuit_breaker" ->
         r.consecutive_losses >= max_consecutive_losses
    [] name = "max_positions" -> r.open_positions >= max_positions
    [] name = "max_positions_per_symbol" ->
         r.open_positions_by_symbol[symbol] >= max_positions_per_symbol
    [] name = "max_symbol_exposure" ->
         r.exposure_by_symbol[symbol] + notional > max_exposure_per_symbol
    [] name = "max_account_exposure" ->
         r.exposure_by_symbol["BTCUSDT"] + r.exposure_by_symbol["ETHUSDT"] + notional
           > max_account_exposure
    [] name = "symbol_cooldown" ->
         r.cooldown_until[symbol] # NoTime /\ t < r.cooldown_until[symbol]

\* The arguments can_trade is asked about in every state.
CanTradeNotionals == {0 - 50, 200}

\* C4: can_trade returns the reason of the first failing check in the
\* order kill_switch, staleness_block, spread_block, slippage_block,
\* volatility_block, daily_loss_circuit_breaker,
\* consecutive_losses_circuit_breaker, max_positions,
\* max_positions_per_symbol, max_symbol_exposure, max_account_exposure,
\* symbol_cooldown, and (True, "ok") exactly when no check fails; with
\* loss_today_pct >= max_daily_loss_pct and no earlier check failing it is
\* (False, "daily_loss_circuit_breaker") whatever the positions, exposures
\* and cooldowns are.
C4_FirstFailingCheckWins ==
  \A symbol \in Symbols, notional \in CanTradeNotionals,
     stale \in BOOLEAN, spread_blocked \in BOOLEAN, slippage_blocked \in BOOLEAN :
    LET result == CanTrade(risk, now, symbol, notional, stale, spread_blocked,
                           slippage_blocked)
        fails(i) == CheckFails(RiskChecks[i], risk, now, symbol, notional, stale,
                               spread_blocked, slippage_blocked)
        failing == {i \in 1..Len(RiskChecks) : fails(i)}
        first == CHOOSE i \in failing : \A j \in failing : i <= j
    IN /\ failing # {} => result = <<FALSE, RiskChecks[first]>>
       /\ (result = <<TRUE, "ok">>) <=> (failing = {})
       /\ (risk.loss_today_pct >= max_daily_loss_pct /\ (\A j \in 1..5 : j \notin failing))
            => result = <<FALSE, "daily_loss_circuit_breaker">>

\* The daily loss breaker is tripped while the position, exposure and
\* cooldown checks of BTCUSDT fail too, and nothing before it fails.
C4_Witness ==
  /\ risk.loss_today_pct >= max_daily_loss_pct
  /\ ~risk.kill_switch
  /\ ~(risk.vol_blocked_until # NoTime /\ now < risk.vol_blocked_until)
  /\ risk.consecutive_losses >= max_consecutive_losses
  /\ risk.open_positions >= max_positions
  /\ risk.open_positions_by_symbol["BTCUSDT"] >= max_positions_per_symbol
  /\ risk.exposure_by_symbol["BTCUSDT"] + 200 > max_exposure_per_symbol
  /\ risk.cooldown_until["BTCUSDT"] # NoTime /\ now < risk.cooldown_until["BTCUSDT"]
  /\ CanTrade(risk, now, "BTCUSDT", 200, FALSE, FALSE, FALSE)
       = <<FALSE, "daily_loss_circuit_breaker">>

\* can_trade denies every request with kill_switch.
AlwaysKillSwitch(r, t) ==
  \A symbol \in Symbols, notional \in CanTradeNotionals,
     stale \in BOOLEAN, spread_blocked \in BOOLEAN, slippage_blocked \in BOOLEAN :
    CanTrade(r, t, symbol, notional, stale, spread_blocked, slippage_blocked)
      = <<FALSE, "kill_switch">>

\* can_trade decides every request as it does for the same manager with
\* the kill switch off, and never with kill_switch.
NeverKillSwitch(r, t) ==
  \A symbol \in Symbols, notional \in CanTradeNotionals,
     stale \in BOOLEAN, spread_blocked \in BOOLEAN, slippage_blocked \in BOOLEAN :
    LET result == CanTrade(r, t, symbol, notional, stale, spread_blocked, slippage_blocked)
        fails(i) == CheckFails(RiskChecks[i], r, t, symbol, notional, stale,
                               spread_blocked, slippage_blocked)
    IN /\ result[2] # "kill_switch"
       /\ result[1] <=> \A i \in 2..Len(RiskChecks) : ~fails(i)

\* C5: from engage_kill_switch until release_kill_switch, can_trade returns
\* (False, "kill_switch") for every symbol, notional and flag combination
\* in every risk state; after release_kill_switch the remaining checks
\* decide again.
C5_KillSwitchOverrides ==
  /\ [](risk.kill_switch => AlwaysKillSwitch(risk, now))
  /\ [](~risk.kill_switch => NeverKillSwitch(risk, now))
  /\ [][/\ EngageKillSwitch => AlwaysKillSwitch(risk', now')
        /\ ReleaseKillSwitch => NeverKillSwitch(risk', now')
        /\ (~EngageKillSwitch /\ ~ReleaseKillSwitch)
             => (AlwaysKillSwitch(risk', now') <=> AlwaysKillSwitch(risk, now))]_vars

\* The kill switch is engaged on a manager that every other check would
\* let trade.
C5_Witness ==
  /\ risk.kill_switch
  /\ CanTrade([risk EXCEPT !.kill_switch = FALSE], now, "ETHUSDT", 200, FALSE, FALSE, FALSE)
       = <<TRUE, "ok">>
  /\ risk.open_positions > 0

\* The last two place_order calls that returned were made one after the
\* other with the same order: symbol, side, qty, mark price and filters.
SameOrderTwice == prev.order # NoOrder /\ last.order = prev.order

\* C1 as stated: two place_order calls in sequence with identical (symbol,
\* side, qty, price) return records with equal idempotency_key and
\* identical status, and submit_fn is invoked at most once for the pair.
C1_AtMostOneSubmitForPair ==
  SameOrderTwice =>
    /\ last.record.idempotency_key = prev.record.idempotency_key
    /\ last.record.status = prev.record.status
    /\ prev.submits + last.submits <= 1

\* C1 as amended: the two calls return the same record (equal
\* idempotency_key, identical status), the second from the cache without an
\* invocation of submit_fn; the first invokes submit_fn once, and once more
\* after each attempt that raised and was followed by a backoff, at most
\* retries + 1 times.
C1_SecondCallNeverSubmits ==
  SameOrderTwice =>
    /\ last.record.idempotency_key = prev.record.idempotency_key
    /\ last.record.status = prev.record.status
    /\ last.record = prev.record
    /\ last.hit
    /\ last.submits = 0
    /\ prev.submits <= prev.sleeps + 1
    /\ prev.submits <= retries + 1

\* The first call was rejected after retries + 1 raising attempts and the
\* second call, with the same order, got its record.
C1_Witness ==
  /\ SameOrderTwice
  /\ prev.record.status = "REJECTED"
  /\ prev.submits = retries + 1
  /\ last.hit
  /\ last.submits = 0

\* The reason the guards of place_order give for an order, by the claim:
\* min_notional; else the reason of the slippage validation if it failed;
\* else the reason of can_trade if it denied; "ok" if no guard fails.
C2_GuardReason(order, market, r, t) ==
  LET f == order.symbol_filters
      qty == Quantize(order.qty, f.step_size)
      price == Quantize(order.mark_price, f.tick_size)
      validation == Validate(ExpectedSlippageBps(qty, market.spread_bps, market.volatility,
                                                 market.depth, market.impact),
                             market.spread_bps, market.expected_edge_bps)
      admission == CanTrade(r, t, order.symbol, qty * price, FALSE,
                            market.spread_bps > spread_guard_bps, ~validation[1])
  IN CASE qty * price < f.min_notional -> "min_notional"
       [] qty * price >= f.min_notional /\ ~validation[1] -> validation[2]
       [] qty * price >= f.min_notional /\ validation[1] /\ ~admission[1] -> admission[2]
       [] OTHER -> "ok"

\* The key of an order.
KeyOf(order) ==
  OrderKey(order.symbol, order.side,
           Quantize(order.qty, order.symbol_filters.step_size),
           Quantize(order.mark_price, order.symbol_filters.tick_size))

\* This step starts a place_order call (whose arguments are then req').
Started == ncalls' = ncalls + 1

\* The cache holds a record under the key.
Cached(c, key) == \E i \in 1..Len(c) : c[i].key = key

\* C2: place_order never invokes submit_fn for an order that fails a
\* pre-submission guard.  A call that is no cache hit and whose quantized
\* notional is below min_notional, or whose slippage validation fails, or
\* that can_trade denies, returns a BLOCKED record with that guard's
\* reason (min_notional, else the slippage reason, else the risk reason),
\* stores it in the cache under the order's key and makes no submit_fn
\* call.
C2_GuardsBlockBeforeSubmit ==
  [][(/\ Started
      /\ ~Cached(cache, KeyOf(req'.order))
      /\ C2_GuardReason(req'.order, req'.market, risk, now) # "ok")
     => (/\ call'.pc = "idle"
         /\ last'.order = req'.order
         /\ last'.record.status = "BLOCKED"
         /\ last'.record.reason = C2_GuardReason(req'.order, req'.market, risk, now)
         /\ last'.submits = 0
         /\ \E i \in 1..Len(cache') :
              /\ cache'[i].key = KeyOf(req'.order)
              /\ cache'[i].record = last'.record)]_vars

\* A call was blocked by the slippage validation although can_trade denied
\* it too, and the call before it was blocked by can_trade alone.
C2_Witness ==
  /\ ~last.hit
  /\ last.record.status = "BLOCKED"
  /\ last.record.reason = "cost_exceeds_edge"
  /\ last.submits = 0
  /\ ~CanTrade(risk, now, last.order.symbol, last.record.qty * last.record.price,
               FALSE, FALSE, TRUE)[1]
  /\ risk.open_positions_by_symbol[last.order.symbol] >= max_positions_per_symbol
  /\ ~prev.hit
  /\ prev.record.status = "FILLED"

\* C3: with place_order calls that do not overlap and apply_trade_close
\* calls, the RiskManager stays within its caps: open_positions <=
\* max_positions, every open_positions_by_symbol[s] <=
\* max_positions_per_symbol, every exposure_by_symbol[s] <=
\* max_exposure_per_symbol, and the exposures sum to at most
\* max_account_exposure.
C3_WithinCaps ==
  /\ risk.open_positions <= max_positions
  /\ \A s \in Symbols :
       /\ risk.open_positions_by_symbol[s] <= max_positions_per_symbol
       /\ risk.exposure_by_symbol[s] <= max_exposure_per_symbol
  /\ risk.exposure_by_symbol["BTCUSDT"] + risk.exposure_by_symbol["ETHUSDT"]
       <= max_account_exposure

\* An open was refused for the account exposure cap while a position of
\* the other symbol was open, after a fill.
C3_Witness ==
  /\ last.record.status = "BLOCKED"
  /\ last.record.reason = "max_account_exposure"
  /\ prev.record.status = "FILLED"
  /\ risk.open_positions = 1
  /\ risk.exposure_by_symbol[prev.order.symbol] > 0

\* The delay of the i-th backoff sleep of a call: retry_base_delay_s *
\* 2^attempt for attempt i - 1, plus a jitter of 0.01 s to 0.2 s.
IsBackoffDelay(delay, i) ==
  \E jitter \in JitterMin..JitterMax :
    delay = retry_base_delay_s * Pow2(i - 1) + jitter

\* C6: a place_order call whose guards pass ends after at most retries + 1
\* submit_fn calls: FILLED at the first call that does not raise, with no
\* further call, and REJECTED with a reason beginning "submit_error:"
\* exactly when all retries + 1 calls raise; a backoff sleep of
\* retry_base_delay_s * 2^attempt plus jitter lies between two attempts and
\* none follows the last failed attempt; every record returned has a
\* status in {FILLED, BLOCKED, REJECTED}.
C6_BoundedRetries ==
  /\ [](/\ call.pc # "idle" =>
             /\ call.submits = call.attempt + 1
             /\ call.submits <= retries + 1
             /\ \A i \in 1..Len(call.sleeps) : IsBackoffDelay(call.sleeps[i], i)
        /\ call.pc = "awaiting_submit" => Len(call.sleeps) = call.attempt
        /\ call.pc = "sleeping" => Len(call.sleeps) = call.attempt + 1
                                   /\ call.attempt < retries
        /\ last.record # NoRecord =>
             /\ last.record.status \in {"FILLED", "BLOCKED", "REJECTED"}
             /\ last.submits <= retries + 1
             /\ (last.record.status = "BLOCKED" /\ ~last.hit) => last.submits = 0
             /\ (last.record.status = "FILLED" /\ ~last.hit) =>
                  /\ last.submits = last.record.attempt + 1
                  /\ last.sleeps = last.submits - 1
             /\ (last.record.status = "REJECTED" /\ ~last.hit) =>
                  /\ last.submits = retries + 1
                  /\ last.sleeps = retries
                  /\ \E exc \in Exceptions :
                       last.record.reason = "submit_error:" \o exc)
  /\ [][/\ SubmitReturns =>
             /\ call'.pc = "idle"
             /\ last'.record.status = "FILLED"
             /\ last'.submits = call.submits
        /\ (\E exc \in Exceptions, jitter \in {JitterMin, JitterMax} : SubmitRaises(exc, jitter)) =>
             IF call.submits = retries + 1
               THEN call'.pc = "idle" /\ last'.record.status = "REJECTED"
                    /\ last'.submits = call.submits
               ELSE call'.pc = "sleeping" /\ last' = last]_vars

\* A call was rejected after retries + 1 raising attempts and retries
\* sleeps; the call before it was filled at its second attempt.
C6_Witness ==
  /\ last.record.status = "REJECTED"
  /\ ~last.hit
  /\ last.submits = retries + 1
  /\ last.sleeps = retries
  /\ prev.record.status = "FILLED"
  /\ prev.submits = 2

\* The position, exposure and cooldown part of the RiskManager.
RiskPositions(r) ==
  <<r.open_positions, r.open_positions_by_symbol, r.exposure_by_symbol, r.cooldown_until>>

\* This step is a step of place_order.
PlaceOrderStep == Started \/ call' # call

\* This step is the one in which place_order creates a FILLED record.
CreatesFilled ==
  /\ call.pc = "awaiting_submit"
  /\ call'.pc = "idle"
  /\ last'.record.status = "FILLED"

\* C7: risk state reflects exactly the filled trades.  The step of
\* place_order that creates a FILLED record (submit_fn has returned, the
\* call returns) applies apply_trade_open(symbol, quantized notional) once;
\* every other step of place_order, so every call that returns BLOCKED,
\* REJECTED or a cached record, leaves open_positions, the counts by
\* symbol, the exposures and the cooldowns unchanged.
C7_RiskReflectsFills ==
  [][PlaceOrderStep =>
      IF CreatesFilled
        THEN LET s == last'.record.symbol
                 notional == last'.record.qty * last'.record.price
             IN /\ risk'.open_positions = risk.open_positions + 1
                /\ risk'.open_positions_by_symbol =
                     [risk.open_positions_by_symbol EXCEPT ![s] = @ + 1]
                /\ risk'.exposure_by_symbol =
                     [risk.exposure_by_symbol EXCEPT ![s] = @ + Max(notional, 0)]
                /\ risk'.cooldown_until =
                     [risk.cooldown_until EXCEPT ![s] = now + cooldown_seconds]
        ELSE RiskPositions(risk') = RiskPositions(risk)]_vars

\* A FILLED record was created after a call that was blocked, and the one
\* position the manager counts has the notional of the fill.
C7_Witness ==
  /\ last.record.status = "FILLED"
  /\ ~last.hit
  /\ prev.record.status = "BLOCKED"
  /\ risk.open_positions = 1
  /\ risk.open_positions_by_symbol[last.record.symbol] = 1
  /\ risk.exposure_by_symbol[last.record.symbol] = last.record.qty * last.record.price
  /\ last.record.qty * last.record.price > 0

\* The record has the symbol, side, quantized qty and quantized price of
\* the order.
SameQuantized(record, order) ==
  /\ record.symbol = order.symbol
  /\ record.side = order.side
  /\ record.qty = Quantize(order.qty, order.symbol_filters.step_size)
  /\ record.price = Quantize(order.mark_price, order.symbol_filters.tick_size)

\* C8: while a record is in the cache, every place_order call with the
\* same (symbol, side, quantized qty, quantized price) returns that record
\* without a submit_fn call and without evaluating a guard, whatever its
\* status and whatever the spread, edge, volatility and risk state of the
\* later call.
C8_CachedRecordReturned ==
  [][Started =>
      \A i \in 1..Len(cache) :
        SameQuantized(cache[i].record, req'.order) =>
          /\ call'.pc = "idle"
          /\ last'.record = cache[i].record
          /\ last'.submits = 0
          /\ cache' = cache
          /\ risk' = risk]_vars

\* A call with another mark price but the same quantized price got the
\* BLOCKED record of the call before it, although its own guards pass.
C8_Witness ==
  /\ last.hit
  /\ last.order # prev.order
  /\ last.record = prev.record
  /\ last.record.status = "BLOCKED"
  /\ last.submits = 0
  /\ call.pc = "idle"
  /\ C2_GuardReason(req.order, req.market, risk, now) = "ok"

\* C9: the idempotency_key of every record place_order produces is the
\* key derived from (symbol, side, quantized qty, quantized price rounded
\* to 8 decimals), so every cache entry under key k holds a record whose
\* idempotency_key is k, for FILLED, REJECTED and BLOCKED records alike.
C9_RecordKeyIsCacheKey ==
  /\ \A i \in 1..Len(cache) : cache[i].record.idempotency_key = cache[i].key
  /\ last.record # NoRecord => last.record.idempotency_key = KeyOf(last.order)


\* This step is one in which a place_order call returns.
Returns == call'.pc = "idle" /\ (Started \/ call.pc # "idle")

\* C11: after every place_order call the idempotency cache holds at most
\* max_dedup_entries records; an insertion that exceeds the limit removes
\* exactly one entry, the one inserted earliest; and a cache hit leaves the
\* cache, so the eviction order, as it was.
C11_CacheBoundedFifo ==
  /\ [](Len(cache) <= max_dedup_entries)
  /\ [][IF Returns /\ ~last'.hit
          THEN LET entry == [key |-> last'.key, record |-> last'.record]
               IN /\ ~Cached(cache, entry.key)
                  /\ IF Len(cache) < max_dedup_entries
                       THEN cache' = Append(cache, entry)
                       ELSE cache' = Append(Tail(cache), entry)
          ELSE cache' = cache]_vars

\* A full cache took a hit on its oldest entry, and the next insertion
\* evicted that entry all the same: the later entry is still there.
C11_Witness ==
  /\ ncalls = 4
  /\ call.pc = "idle"
  /\ ~last.hit
  /\ prev.hit
  /\ Len(cache) = max_dedup_entries
  /\ ~Cached(cache, prev.key)
  /\ cache[Len(cache)].key = last.key

\* C12: after any sequence of apply_trade_open and apply_trade_close calls
\* with any arguments (closes without a matching open, negative notionals,
\* a released_notional larger than the exposure), open_positions, every
\* open_positions_by_symbol[s] and every exposure_by_symbol[s] are >= 0.
C12_NeverNegative ==
  /\ risk.open_positions >= 0
  /\ \A s \in Symbols :
       /\ risk.open_positions_by_symbol[s] >= 0
       /\ risk.exposure_by_symbol[s] >= 0

\* A position of BTCUSDT was opened with a negative notional and a close of
\* ETHUSDT, which held none, took the account's count back to zero at a
\* loss.
C12_Witness ==
  /\ risk.open_positions = 0
  /\ risk.open_positions_by_symbol["BTCUSDT"] = 1
  /\ risk.exposure_by_symbol["BTCUSDT"] = 0
  /\ risk.open_positions_by_symbol["ETHUSDT"] = 0
  /\ risk.exposure_by_symbol["ETHUSDT"] = 0
  /\ risk.cooldown_until["ETHUSDT"] # NoTime
  /\ risk.consecutive_losses = 1

\* A volatility deadline is in force at time t.
InForce(until, t) == until # NoTime /\ t < until

\* can_trade gives reason for every symbol and notional, no flag set.
CanTradeAlways(reason) ==
  \A s \in Symbols, n \in CanTradeNotionals :
    CanTrade(risk, now, s, n, FALSE, FALSE, FALSE)[2] = reason

\* can_trade gives reason for no symbol and notional, no flag set.
CanTradeNever(reason) ==
  \A s \in Symbols, n \in CanTradeNotionals :
    CanTrade(risk, now, s, n, FALSE, FALSE, FALSE)[2] # reason

\* C13: update_volatility(vol, threshold, cooldown_s) with vol > threshold
\* returns True and makes can_trade return (False, "volatility_block") for
\* every call made before cooldown_s has elapsed (no earlier check of the
\* chain failing), and can_trade stops returning volatility_block once
\* cooldown_s has elapsed with no further trigger; with vol <= threshold it
\* returns False and leaves the deadline of the block unchanged.
C13_VolatilityBlockTimeBoxed ==
  vol_blocked.called =>
    /\ vol_blocked.vol_10s > vol_kill_threshold => vol_blocked.result
    /\ (InForce(vol_blocked.promised, now) /\ ~risk.kill_switch)
         => CanTradeAlways("volatility_block")
    /\ (vol_blocked.deadline # NoTime /\ now >= vol_blocked.deadline)
         => CanTradeNever("volatility_block")
    /\ vol_blocked.vol_10s <= vol_kill_threshold =>
         /\ ~vol_blocked.result
         /\ vol_blocked.until_after = vol_blocked.until_before

\* C14: update_volatility returns True exactly when the call puts a
\* volatility block in force that was not in force before the call, and
\* False otherwise.
C14_TrueIffNewlyBlocked ==
  vol_blocked.called =>
    (vol_blocked.result <=>
       /\ InForce(vol_blocked.until_after, vol_blocked.at)
       /\ ~InForce(vol_blocked.until_before, vol_blocked.at))

\* The size by the formula of the claim, the divisor being
\* stop_distance_pct / 100 itself: no size where that is zero.
ClaimedSize(max_notional_per_trade, equity, confidence, stop_distance_pct, size_multiplier) ==
  LET num == equity * max_trade_risk_pct * Max(1, Min(confidence, 10))
               * Max(2, Min(size_multiplier, 15)) * 1000
  IN IF stop_distance_pct = 0
       THEN <<0, 0>>
       ELSE IF num >= max_notional_per_trade * stop_distance_pct
              THEN <<max_notional_per_trade, 1>>
              ELSE Ratio(num, stop_distance_pct)

\* C15 as stated: position_size equals min(equity * (max_trade_risk_pct /
\* 100) * clamp(confidence, 0.1, 1.0) / (stop_distance_pct / 100) *
\* clamp(size_multiplier, 0.2, 1.5), max_notional_per_trade).
C15_SizeByFormula ==
  sized.done =>
    sized.result = ClaimedSize(sized.max_notional_per_trade, sized.equity, sized.confidence,
                               sized.stop_distance_pct, sized.size_multiplier)

\* C15 as amended: the divisor is max(stop_distance_pct / 100, 1e-6): the
\* size is min(equity * (max_trade_risk_pct / 100) * clamp(confidence, 0.1,
\* 1.0) / max(stop_distance_pct / 100, 1e-6) * clamp(size_multiplier, 0.2,
\* 1.5), max_notional_per_trade), which is the formula of the claim where
\* stop_distance_pct >= 1e-4; it never exceeds max_notional_per_trade, and
\* position_size(10000, 1.0, 1.0, 1.2) with max_notional_per_trade = 100
\* is 100.
C15_SizeByFormulaWithFloor ==
  sized.done =>
    LET floored == Max(sized.stop_distance_pct, StopFloor)
    IN /\ sized.result = ClaimedSize(sized.max_notional_per_trade, sized.equity,
                                     sized.confidence, floored, sized.size_multiplier)
       /\ sized.stop_distance_pct >= StopFloor =>
            sized.result = ClaimedSize(sized.max_notional_per_trade, sized.equity,
                                       sized.confidence, sized.stop_distance_pct,
                                       sized.size_multiplier)
       /\ sized.result[2] > 0
       /\ sized.result[1] <= sized.max_notional_per_trade * sized.result[2]
       /\ (/\ sized.max_notional_per_trade = 100 /\ sized.equity = 10000
           /\ sized.confidence = 10 /\ sized.stop_distance_pct = 100000
           /\ sized.size_multiplier = 12) => sized.result = <<100, 1>>

\* A size below the cap, computed with the divisor at its floor: equity 1,
\* confidence 0 (clamped to 0.1), stop distance 0.00005 percent and
\* multiplier 0.1 (clamped to 0.2) give 200 under a cap of 1000, where the
\* formula without the floor gives 400.
C15_Witness ==
  /\ sized.done
  /\ sized.stop_distance_pct > 0
  /\ sized.stop_distance_pct < StopFloor
  /\ sized.result = <<200, 1>>
  /\ sized.max_notional_per_trade = 1000
  /\ ClaimedSize(sized.max_notional_per_trade, sized.equity, sized.confidence,
                 sized.stop_distance_pct, sized.size_multiplier) = <<400, 1>>

\* C16: validate fails on the first violated condition in the order
\* spread_bps > spread_guard_bps ("spread_guard"), expected_bps >
\* max_slippage_bps ("slippage_guard"), expected_bps > expected_edge_bps *
\* edge_safety_factor ("cost_exceeds_edge"), and returns (True, "ok") only
\* when none holds: it never accepts a cost above the edge times the
\* factor, and gives "cost_exceeds_edge" for one whenever the two earlier
\* guards pass.
C16_ValidateFirstViolation ==
  validated.done =>
    LET wide == validated.spread_bps > spread_guard_bps
        slips == validated.expected_bps > max_slippage_bps
        costly == validated.expected_bps * edge_safety_factor_den
                    > validated.expected_edge_bps * edge_safety_factor_num
    IN /\ wide => validated.result = <<FALSE, "spread_guard">>
       /\ (~wide /\ slips) => validated.result = <<FALSE, "slippage_guard">>
       /\ (~wide /\ ~slips /\ costly) => validated.result = <<FALSE, "cost_exceeds_edge">>
       /\ (~wide /\ ~slips /\ ~costly) => validated.result = <<TRUE, "ok">>
       /\ validated.result[1] => ~costly

\* A cost above max_slippage_bps and above the edge times the factor, the
\* spread within its guard: the reason is that of the earlier guard.
C16_Witness ==
  /\ validated.done
  /\ validated.spread_bps <= spread_guard_bps
  /\ validated.expected_bps > max_slippage_bps
  /\ validated.expected_bps * edge_safety_factor_den
       > validated.expected_edge_bps * edge_safety_factor_num
  /\ validated.result = <<FALSE, "slippage_guard">>

\* C17: a signed GET or POST whose first attempt fails with the timestamp
\* error calls sync_time exactly once and re-sends the same request exactly
\* once; a failing retry is raised to the caller without another resync or
\* retry; a first attempt failing with any other error is raised without a
\* retry; no signed call sends more than two requests.
SignedEnded == signed.op \in {"_signed_get", "_signed_post"} /\ signed.pc = "idle"

NeverMoreThanTwo ==
  signed.op \in {"_signed_get", "_signed_post"} =>
    /\ Len(signed.attempts) <= 2
    /\ signed.resyncs <= 1
    /\ \A i \in 1..Len(signed.attempts) : signed.attempts[i] = <<signed.method, signed.path>>

OtherErrorNotRetried ==
  (SignedEnded /\ signed.first_error # "" /\ signed.first_error # "ClientResponseError:-1021") =>
    /\ Len(signed.attempts) = 1
    /\ signed.resyncs = 0
    /\ signed.outcome = signed.first_error
    /\ signed.raised_by = "request"

C17_ResyncAndRetryOnce ==
  /\ NeverMoreThanTwo
  /\ OtherErrorNotRetried
  /\ (SignedEnded /\ signed.first_error = "ClientResponseError:-1021") =>
       /\ signed.resyncs = 1
       /\ Len(signed.attempts) = 2

\* C17 as the code has it: the request is re-sent when the one resync
\* succeeds; when that sync_time raises, its exception is raised to the
\* caller and the request is not sent again.
C17_RetryOnceAfterSuccessfulResync ==
  /\ NeverMoreThanTwo
  /\ OtherErrorNotRetried
  /\ (SignedEnded /\ signed.first_error = "ClientResponseError:-1021") =>
       /\ signed.resyncs = 1
       /\ IF signed.raised_by = "sync_time"
            THEN Len(signed.attempts) = 1 /\ signed.outcome \in Excs
            ELSE Len(signed.attempts) = 2
                   /\ signed.raised_by \in {"", "request"}
                   /\ (signed.raised_by = "") = (signed.outcome = "ok")

\* The retry failed with the timestamp error again and was raised.
C17_Witness ==
  /\ SignedEnded
  /\ signed.first_error = "ClientResponseError:-1021"
  /\ signed.outcome = "ClientResponseError:-1021"
  /\ signed.raised_by = "request"
  /\ signed.resyncs = 1
  /\ Len(signed.attempts) = 2

\* C18: a signed GET or POST on an adapter whose api_key or api_secret is
\* empty raises NotConfiguredError before any request: no sync_time call
\* and no signed request.
C18_NotConfiguredBeforeNetwork ==
  /\ []((signed.op \in {"_signed_get", "_signed_post"}
           /\ (adapter.api_key = "" \/ adapter.api_secret = "")) =>
          /\ signed.pc = "idle"
          /\ signed.outcome = "NotConfiguredError"
          /\ signed.syncs = 0
          /\ signed.attempts = <<>>)
  /\ [][(nadapter' # nadapter /\ signed'.op \in {"_signed_get", "_signed_post"}
           /\ (adapter.api_key = "" \/ adapter.api_secret = "")) =>
          adapter' = adapter]_vars

\* A signed POST on an adapter with a key and no secret.
C18_Witness ==
  /\ signed.op = "_signed_post"
  /\ adapter.api_key # ""
  /\ adapter.api_secret = ""
  /\ signed.outcome = "NotConfiguredError"
  /\ signed.attempts = <<>>

\* C19: the TimeSync offsets change only in a sync_time call that succeeds,
\* and then only the offset of the adapter's current mode: a sync_time that
\* raises leaves both alone, a successful one in DEMO mode leaves
\* real_offset_ms alone and the other way round, and switch_mode changes
\* no offset.
C19_OffsetsOnlyBySuccessfulSync ==
  [][/\ adapter'.time_sync # adapter.time_sync =>
          /\ signed.pc \in {"presync", "resync", "sync"}
          /\ signed'.synced = signed.synced + 1
          /\ adapter'.mode = adapter.mode
          /\ adapter.mode = "DEMO" =>
               adapter'.time_sync.real_offset_ms = adapter.time_sync.real_offset_ms
          /\ adapter.mode = "REAL" =>
               adapter'.time_sync.demo_offset_ms = adapter.time_sync.demo_offset_ms
     /\ signed'.raised_by = "sync_time" => adapter'.time_sync = adapter.time_sync
     /\ adapter'.mode # adapter.mode => adapter'.time_sync = adapter.time_sync]_vars

\* A successful sync in REAL mode after one in DEMO mode: both offsets are
\* set, to different values.
C19_Witness ==
  /\ adapter.mode = "REAL"
  /\ signed.synced >= 1
  /\ signed.pc = "idle"
  /\ adapter.time_sync.demo_offset_ms = 7
  /\ adapter.time_sync.real_offset_ms = 0 - 5

\* C20: while stop() has not been called consume never returns; every
\* connection error and every end of a connection is followed by a
\* reconnect attempt, after an error first sleeping the current backoff,
\* which is 1, 2, 4, 8, 16, 30, 30, ... seconds over consecutive failures
\* and 1 again after a successful connection; after stop() the loop makes
\* no further reconnect attempt.
ClaimedBackoff(failures) == IF failures >= 6 THEN 30 ELSE <<1, 2, 4, 8, 16>>[failures]

NeverReturnsUnstopped ==
  [](\A s \in Streams : consumers[s].pc = "returned" => consumers[s].stopped)

BackoffAsClaimed ==
  [](\A s \in Streams :
       /\ consumers[s].pc = "sleeping" =>
            consumers[s].backoff = ClaimedBackoff(consumers[s].failures)
       /\ consumers[s].pc = "connected" => consumers[s].backoff = 1)

ReconnectsUnstopped ==
  [][\A s \in Streams :
       (~consumers'[s].stopped /\ consumers[s].pc \in {"sleeping", "connected"}
          /\ consumers'[s].pc \notin {consumers[s].pc, "sleeping"})
         => consumers'[s].pc = "connecting"]_vars

NoReconnectAfterStop ==
  [][\A s \in Streams :
       (consumers[s].stopped /\ consumers[s].pc \in {"sleeping", "connected"})
         => consumers'[s].pc # "connecting"]_vars

C20_ConsumeUntilStop ==
  /\ NeverReturnsUnstopped
  /\ BackoffAsClaimed
  /\ ReconnectsUnstopped
  /\ NoReconnectAfterStop

\* C21: in each cycle of _monitor_staleness every stream reported by
\* stale_streams() (no message for longer than stale_seconds) gets exactly
\* one restart task, and a stream not reported gets none.
C21_OneRestartPerStaleStream ==
  [][MonitorStaleness =>
       \A s \in Streams :
         /\ (s \in supervisor'.reported) =
              (stream_last_update[s] # NoTime
                 /\ wsclock - stream_last_update[s] > stale_seconds)
         /\ supervisor'.tasks[s] - supervisor.tasks[s]
              = IF s \in supervisor'.reported THEN 1 ELSE 0]_vars

\* A cycle has restarted one stream a second time and left the other, which
\* has just delivered a message, alone.
C21_Witness ==
  /\ supervisor.reported = {"btcusdt@aggTrade"}
  /\ supervisor.tasks["btcusdt@aggTrade"] = 3
  /\ supervisor.tasks["ethusdt@aggTrade"] = 1
  /\ stream_last_update["ethusdt@aggTrade"] = wsclock

\* C22: a stream started by the supervisor that has been silent for longer
\* than the staleness threshold is reported by stale_streams() and
\* restarted by the monitor, whether or not it ever delivered a message.
SilentSince(s) ==
  IF stream_last_update[s] # NoTime THEN stream_last_update[s]
  ELSE supervisor.started_at[s]

C22_SilentStreamRestarted ==
  [][MonitorStaleness =>
       \A s \in Streams :
         (supervisor.started_at[s] # NoTime /\ wsclock - SilentSince(s) > stale_seconds)
           => /\ s \in supervisor'.reported
              /\ supervisor'.tasks[s] = supervisor.tasks[s] + 1]_vars

\* C22 for the streams that have delivered a message.
SilentAfterMessageRestarted ==
  [][MonitorStaleness =>
       \A s \in Streams :
         (stream_last_update[s] # NoTime /\ wsclock - stream_last_update[s] > stale_seconds)
           => /\ s \in supervisor'.reported
              /\ supervisor'.tasks[s] = supervisor.tasks[s] + 1]_vars

\* C23: publish does not fail for a slow subscriber: when a subscriber's
\* queue is full exactly its oldest item is dropped and the new event is
\* enqueued, so after every publish each subscriber queue holds at most
\* maxsize items and its newest item is the event just published.
Delivered(q) ==
  LET before == bus.queues[q].items
      after == bus'.queues[q].items
      event == busobs'.published
  IN /\ after # <<>> /\ after[Len(after)] = event
     /\ after = IF before # <<>> /\ Len(before) = bus.queues[q].maxsize
                  THEN Append(Tail(before), event)
                  ELSE Append(before, event)

C23_FullQueueDropsOldest ==
  [][Publish =>
       \A q \in Subscribers :
         bus.queues[q].subscribed =>
           /\ Delivered(q)
           /\ Len(bus'.queues[q].items) <= bus.queues[q].maxsize]_vars

\* C23 with the queues of maxsize 0 told apart: asyncio.Queue(maxsize=0)
\* has no bound, is never full and keeps every event.
C23_BoundedQueueDropsOldest ==
  [][Publish =>
       \A q \in Subscribers :
         bus.queues[q].subscribed =>
           IF bus.queues[q].maxsize >= 1
             THEN /\ Delivered(q)
                  /\ Len(bus'.queues[q].items) <= bus.queues[q].maxsize
             ELSE bus'.queues[q].items = Append(bus.queues[q].items, busobs'.published)]_vars

\* A full queue of two has lost its oldest item to the fourth event.
C23_Witness ==
  \E q \in Subscribers :
    /\ bus.queues[q].subscribed
    /\ bus.queues[q].maxsize = 2
    /\ bus.queues[q].items = <<3, 4>>
    /\ busobs.published = 4

\* C24: the history holds the most recent min(history_limit, number
\* published since the last clear) events in publication order, and
\* snapshot(limit) returns the most recent min(limit, len(history)) of
\* them in publication order, for every limit >= 0.
MostRecent(events, n) ==
  LET k == IF n < Len(events) THEN n ELSE Len(events)
  IN SubSeq(events, Len(events) - k + 1, Len(events))

HistoryIsMostRecent ==
  [](bus.history = MostRecent(busobs.since_clear, history_limit))

SnapshotOfOneOrMore ==
  [][\A limit \in Limits \ {0} :
       Snapshot(limit) => busobs'.snapshot.result = MostRecent(bus.history, limit)]_vars

C24_HistoryAndSnapshot ==
  /\ HistoryIsMostRecent
  /\ [][\A limit \in Limits :
          Snapshot(limit) => busobs'.snapshot.result = MostRecent(bus.history, limit)]_vars

\* C25: after any sequence of update calls with impulse_score >= 0,
\* wick_proxy >= 0 and exhaustion_ratio in [0,1], every confidence lies in
\* [0,1] and the five confidences sum to 1; so for the initial vector.
C25_ConfidencesAreDistribution ==
  \A i \in Instances :
    /\ machines[i].den > 0
    /\ \A s \in States : 0 <= machines[i].num[s] /\ machines[i].num[s] <= machines[i].den
    /\ SumOver(machines[i].num) = machines[i].den

\* Five updates, and all five confidences above zero.
C25_Witness ==
  /\ updates.fed[1] = 5
  /\ \A s \in States : machines[1].num[s] > 0

\* C26: current_state has a maximal confidence and, of the states that tie
\* for the maximum, is the one declared first in MarketState; a fresh
\* machine's current_state is BUILDUP.
Position(state) == CHOOSE k \in 1..Len(MarketState) : MarketState[k] = state

C26_FirstDeclaredMaximum ==
  \A i \in Instances :
    LET conf == machines[i]
        state == CurrentState(conf)
    IN /\ \A s \in States : conf.num[s] <= conf.num[state]
       /\ \A s \in States : conf.num[s] = conf.num[state] => Position(state) <= Position(s)
       /\ updates.fed[i] = 0 => state = "BUILDUP"

\* IMPULSE and CLIMAX tie above the others, and current_state is IMPULSE.
C26_Witness ==
  /\ machines[1].num["IMPULSE"] = machines[1].num["CLIMAX"]
  /\ \A s \in States \ {"IMPULSE", "CLIMAX"} : machines[1].num[s] < machines[1].num["IMPULSE"]
  /\ CurrentState(machines[1]) = "IMPULSE"

Markers(ts) == <<ts.signal_time, ts.decision_time, ts.send_time, ts.ack_time, ts.fill_time>>

\* The markers that are set come before the ones that are not, and do not
\* decrease.
Ordered(ts) ==
  \A i, j \in 1..5 :
    i < j => /\ Markers(ts)[j] # NoTime => Markers(ts)[i] # NoTime
             /\ Markers(ts)[j] # NoTime => Markers(ts)[i] <= Markers(ts)[j]

\* The number of markers a record of the status carries.
MarkersOf(status) ==
  CASE status = "BLOCKED" -> 2
    [] status = "REJECTED" -> 3
    [] status = "FILLED" -> 5

\* The record returned last has ordered markers, as many as its status
\* says.
ReturnedOrdered ==
  last.record # NoRecord =>
    /\ Ordered(last.record.timestamps)
    /\ \A i \in 1..5 :
         Markers(last.record.timestamps)[i] # NoTime <=> i <= MarkersOf(last.record.status)

\* C31: the timestamps of every TradeRecord returned by place_order are
\* non-decreasing in the order signal, decision, send, ack, fill, a later
\* one set only if every earlier one is: BLOCKED records carry the first
\* two, REJECTED records also the send_time of the last attempt, FILLED
\* records all five with the send_time of the successful attempt.
C31_TimestampsInLifecycleOrder ==
  /\ []ReturnedOrdered
  /\ [][(call'.pc = "awaiting_submit" /\ call.pc # "awaiting_submit")
          => call'.timestamps.send_time = now]_vars
  /\ [][(call.pc = "awaiting_submit" /\ call'.pc = "idle")
          => last'.record.timestamps.send_time = call.timestamps.send_time]_vars

\* A record filled by the second attempt, made after the clock advanced.
C31_Witness ==
  /\ last.record.status = "FILLED"
  /\ last.record.attempt = 1
  /\ last.record.timestamps.decision_time < last.record.timestamps.send_time
  /\ last.record.timestamps.fill_time = last.record.timestamps.send_time

\* The two calls that returned last each made a submission that succeeded.
BothSubmitted ==
  /\ last.record.status = "FILLED" /\ ~last.hit
  /\ prev.record.status = "FILLED" /\ ~prev.hit

\* C32: for every interleaving of place_order calls on one engine, calls
\* with the same key that overlap included, at most one submit_fn
\* invocation succeeds per idempotency key, and apply_trade_open is
\* applied at most once per key.
C32_OneFillPerKey == BothSubmitted => last.key # prev.key

\* The caps of the RiskManager.
WithinCaps ==
  /\ risk.open_positions <= max_positions
  /\ \A s \in Symbols : risk.open_positions_by_symbol[s] <= max_positions_per_symbol
  /\ \A s \in Symbols : risk.exposure_by_symbol[s] <= max_exposure_per_symbol
  /\ SumExposure(risk) <= max_account_exposure

\* C33: when place_order calls for different keys overlap on one shared
\* RiskManager and ExecutionEngine, suspending at the submit_fn await, the
\* position and exposure caps hold after both complete.
C33_CapsHoldAfterOverlap ==
  (BothSubmitted /\ last.key # prev.key /\ call.pc = "idle" /\ parked.pc = "idle")
    => WithinCaps

\* A step that starts a submit_fn invocation, and a step that makes a
\* FILLED record.
StartsSubmit == call'.submits + parked'.submits > call.submits + parked.submits
MakesFilled == risk'.open_positions > risk.open_positions

\* C34: once the kill switch is engaged, place_order starts no further
\* submit_fn invocation and creates no new FILLED record, a call that
\* passed its guards before and is in its retry loop included.
C34_NothingSentAfterKill ==
  [][risk.kill_switch => ~StartsSubmit /\ ~MakesFilled]_vars

\* A call that starts after the kill switch was engaged submits nothing.
NoSubmitByLaterCall ==
  [][(risk.kill_switch /\ call.pc = "idle" /\ call'.pc # "idle") => parked' = call]_vars

\* The step is a call of apply_trade_close with a loss, without one, or no
\* call of apply_trade_close.
LosingClose == \E s \in Symbols, released \in Notionals \cup {MaxExposure} :
                 ApplyTradeClose(s, 0 - 1, released)
OtherClose == \E s \in Symbols, released \in Notionals \cup {MaxExposure} :
                ApplyTradeClose(s, 1, released)

\* Every request is denied, by the breaker unless an earlier check of
\* can_trade fails.
BreakerDenies ==
  \A s \in Symbols, notional \in Notionals, stale, spread, slippage \in BOOLEAN :
    LET answer == CanTrade(risk, now, s, notional, stale, spread, slippage)
        earlier == \/ risk.kill_switch \/ stale \/ spread \/ slippage
                   \/ (risk.vol_blocked_until # NoTime /\ now < risk.vol_blocked_until)
                   \/ risk.loss_today_pct >= max_daily_loss_pct
    IN /\ ~answer[1]
       /\ ~earlier => answer[2] = "consecutive_losses_circuit_breaker"

\* C35: consecutive_losses is the number of apply_trade_close calls with
\* pnl_pct < 0 since the last one with pnl_pct >= 0 (or since start); from
\* max_consecutive_losses on can_trade denies every request, by
\* consecutive_losses_circuit_breaker unless an earlier check fails, and
\* only a close with pnl_pct >= 0 sets the counter back, to 0 (no step but
\* a close changes the counter, and a close with a loss raises it).
C35_LossesCountedAndBreakerHolds ==
  /\ [](risk.consecutive_losses >= max_consecutive_losses => BreakerDenies)
  /\ [][LosingClose => risk'.consecutive_losses = risk.consecutive_losses + 1]_vars
  /\ [][OtherClose => risk'.consecutive_losses = 0]_vars
  /\ [][risk'.consecutive_losses # risk.consecutive_losses => (LosingClose \/ OtherClose)]_vars

\* The breaker is on after two losses, with nothing else in the way of a
\* trade.
C35_Witness ==
  /\ risk.consecutive_losses = max_consecutive_losses
  /\ ~risk.kill_switch
  /\ risk.open_positions = 0
  /\ CanTrade(risk, now, "BTCUSDT", 200, FALSE, FALSE, FALSE)
       = <<FALSE, "consecutive_losses_circuit_breaker">>

\* The step is an open of s, a close of s with a loss, a close of s without
\* one.
OpenOf(s) == \E n \in Notionals : ApplyTradeOpenWith(s, n)
LossOf(s) == \E released \in Released : ApplyTradeCloseWith(s, 0 - 1, released)
GainOf(s) == \E released \in Released : ApplyTradeCloseWith(s, 1, released)

\* What the claim says of every step but the comparison with the expiry in
\* force: the expiry an open and a losing close set, the close without a
\* loss, and the other symbols.
CooldownsSetPerSymbol ==
  /\ [][\A s \in Symbols :
          OpenOf(s) => risk'.cooldown_until[s] = now + settings.cooldown_seconds]_vars
  /\ [][\A s \in Symbols :
          LossOf(s) => risk'.cooldown_until[s] = now + settings.loss_cooldown_seconds]_vars
  /\ [][\A s \in Symbols : GainOf(s) => risk'.cooldown_until[s] = risk.cooldown_until[s]]_vars
  /\ [][\A s \in Symbols :
          (OpenOf(s) \/ LossOf(s) \/ GainOf(s))
            => \A o \in Symbols \ {s} : risk'.cooldown_until[o] = risk.cooldown_until[o]]_vars

\* A losing close never moves the expiry back when loss_cooldown_seconds is
\* not below cooldown_seconds.
LossLengthensWhenLonger ==
  [][\A s \in Symbols :
       (LossOf(s) /\ settings.loss_cooldown_seconds >= settings.cooldown_seconds)
         => risk'.cooldown_until[s] >= risk.cooldown_until[s]]_vars

\* C36: cooldowns are per symbol and a loss lengthens them: an open of s
\* blocks s until cooldown_seconds after the open; a close of s with a loss
\* leaves s with an expiry loss_cooldown_seconds after the close and never
\* earlier than the expiry in force before; a close without a loss leaves
\* the expiry unchanged; no open or close of s changes the cooldown of
\* another symbol.
C36_LossLengthensCooldown ==
  /\ [][\A s \in Symbols :
          OpenOf(s) => risk'.cooldown_until[s] = now + settings.cooldown_seconds]_vars
  /\ [][\A s \in Symbols :
          LossOf(s) => /\ risk'.cooldown_until[s] = now + settings.loss_cooldown_seconds
                       /\ risk'.cooldown_until[s] >= risk.cooldown_until[s]]_vars
  /\ [][\A s \in Symbols : GainOf(s) => risk'.cooldown_until[s] = risk.cooldown_until[s]]_vars
  /\ [][\A s \in Symbols :
          (OpenOf(s) \/ LossOf(s) \/ GainOf(s))
            => \A o \in Symbols \ {s} : risk'.cooldown_until[o] = risk.cooldown_until[o]]_vars

\* The sum of open_positions_by_symbol over the symbols.
SumOfCounts == risk.open_positions_by_symbol["BTCUSDT"] + risk.open_positions_by_symbol["ETHUSDT"]

\* C37: after any sequence of apply_trade_open and apply_trade_close calls
\* open_positions equals the sum of open_positions_by_symbol over all
\* symbols.
C37_GlobalCountIsSumOfSymbols == risk.open_positions = SumOfCounts

\* The step is a close of a symbol that holds no position.
UnmatchedClose ==
  \E s \in Symbols, p \in PnlPcts, released \in Notionals \cup {MaxExposure} :
    risk.open_positions_by_symbol[s] = 0 /\ ApplyTradeClose(s, p, released)

\* Every step but a close of a symbol that holds no position keeps the two
\* counts equal.
MatchedCloseKeepsCounts ==
  [][(risk.open_positions = SumOfCounts /\ ~UnmatchedClose)
       => risk'.open_positions = risk'.open_positions_by_symbol["BTCUSDT"]
                                   + risk'.open_positions_by_symbol["ETHUSDT"]]_vars

\* C38: at any time at most one consume task runs per stream: a restart
\* of a stale stream leaves the task it replaces not running, so repeated
\* cycles do not add up tasks for a stream that stays silent.
C38_OneConsumeTaskPerStream ==
  supervisor.running => \A s \in Streams : supervisor.tasks[s] <= 1

\* A stream that is not restarted keeps the one task start() gave it.
OneTaskUntilRestart ==
  /\ [][\A s \in Streams :
          supervisor'.tasks[s] > supervisor.tasks[s]
            => (~supervisor.running \/ (MonitorStaleness /\ s \in supervisor'.reported))]_vars
  /\ [][\A s \in Streams : supervisor'.tasks[s] >= supervisor.tasks[s]]_vars


\* C39: for every interleaving of publish, subscribe and unsubscribe calls
\* on one EngineEventBus each subscriber queue receives, without duplicates
\* and in the order of publication, only events published after its
\* subscribe returned and before its unsubscribe returned; after
\* unsubscribe(queue) no event is added to that queue, and unsubscribing a
\* queue that is not subscribed changes nothing.  Each of the three calls
\* runs without suspending: the lock is free whenever a call reaches it,
\* and no call awaits while holding it.
ItemsOf(q) == {q.items[i] : i \in 1..Len(q.items)}

\* The events of a queue are distinct and in the order of publication.
InPublicationOrder(q) ==
  \A i, j \in 1..Len(q.items) : i < j => q.items[i] < q.items[j]

\* An event enters a queue only in the publish call that creates it, and
\* only while the queue is subscribed.
AddedOnlyWhenPublished(q) ==
  LET added == ItemsOf(bus'.queues[q]) \ ItemsOf(bus.queues[q])
  IN added # {} =>
       /\ bus.queues[q].subscribed
       /\ q \notin busobs.unsubscribed
       /\ busobs'.published = busobs.published + 1
       /\ added = {busobs'.published}

C39_QueueGetsEventsWhileSubscribed ==
  /\ [](\A q \in Subscribers :
          /\ InPublicationOrder(bus.queues[q])
          /\ q \in busobs.unsubscribed => ~bus.queues[q].subscribed)
  /\ [][\A q \in Subscribers : AddedOnlyWhenPublished(q)]_vars
  /\ [][\A q \in Subscribers, maxsize \in MaxSizes :
          Subscribe(q, maxsize) => bus'.queues[q].items = <<>>]_vars
  /\ [][\A q \in Subscribers :
          (Unsubscribe(q) /\ ~bus.queues[q].subscribed) => bus' = bus]_vars

\* One queue was subscribed after the first event, got the second and was
\* unsubscribed before the third and fourth, which the other queue got.
C39_Witness ==
  \E q, other \in Subscribers :
    /\ q \in busobs.unsubscribed
    /\ bus.queues[q].items = <<2>>
    /\ bus.queues[other].subscribed
    /\ bus.queues[other].maxsize = 0
    /\ ItemsOf(bus.queues[other]) = {3, 4}
    /\ busobs.published = 4


\* ------------------------------------------------------ EngineController
outsideController == <<earlierVars, supVars, busVars, smVars, stratVars, featVars, concVars, cfgVars>>

\* The engine task has been created and has not ended.
TaskNotDone(ctrl) == ctrl.engine_task \in {"running", "cancelling"}

\* start, holding the lock: nothing when already running; else the flags
\* are set and an engine task is created unless one is still alive.
StartLocked(ctrl) ==
  IF ctrl.running
    THEN [controller |-> ctrl, returned |-> "already running"]
    ELSE [controller |-> [ctrl EXCEPT !.running = TRUE,
                                      !.entries_paused = FALSE,
                                      !.engine_task = IF TaskNotDone(ctrl) THEN @ ELSE "running"],
          returned |-> "started"]

\* The end of stop, called by c: the lock is released, and kill_switch
\* goes on to pause the entries.
StopReturns(ctrl, c) ==
  LET released == [ctrl EXCEPT !.runtime_lock = Tail(@)]
  IN IF c = "kill_switch" THEN [released EXCEPT !.entries_paused = TRUE] ELSE released

\* stop, called by c and holding the lock: the flags are cleared; a live
\* engine task is cancelled and awaited with the lock held.
StopLocked(ctrl, c) ==
  LET stopped == [ctrl EXCEPT !.running = FALSE, !.entries_paused = FALSE]
  IN IF TaskNotDone(ctrl)
       THEN [controller |-> [stopped EXCEPT !.engine_task = "cancelling"],
             at |-> "awaiting_task", returned |-> ops[c].returned]
       ELSE [controller |-> StopReturns(stopped, c),
             at |-> "idle", returned |-> IF c = "stop" THEN "stopped" ELSE "ok"]

\* A call c reaches the lock with the controller as ctrl: it takes a free
\* lock and goes on, or waits behind the calls already there.
Reach(ctrl, c) ==
  IF ctrl.runtime_lock # <<>>
    THEN [controller |-> [ctrl EXCEPT !.runtime_lock = Append(@, c)],
          at |-> "waiting", returned |-> ops[c].returned]
    ELSE IF c = "start"
           THEN LET r == StartLocked(ctrl)
                IN [controller |-> r.controller, at |-> "idle", returned |-> r.returned]
           ELSE StopLocked([ctrl EXCEPT !.runtime_lock = <<c>>], c)

\* Where a call is left and what it returned.
Becomes(c, r) ==
  /\ controller' = r.controller
  /\ ops' = [ops EXCEPT ![c] = [at |-> r.at, returned |-> r.returned]]

\* start()
ControllerStart ==
  /\ ops["start"].at = "idle"
  /\ Becomes("start", Reach(controller, "start"))
  /\ UNCHANGED outsideController

\* stop()
ControllerStop ==
  /\ ops["stop"].at = "idle"
  /\ Becomes("stop", Reach(controller, "stop"))
  /\ UNCHANGED outsideController

\* kill_switch(): the flag is set and saved, then stop() is awaited.
KillSwitch ==
  /\ ops["kill_switch"].at = "idle"
  /\ Becomes("kill_switch", Reach([controller EXCEPT !.kill_switch_engaged = TRUE], "kill_switch"))
  /\ UNCHANGED outsideController

\* A waiting call is given the lock by the call that released it.
LockAcquired(c) ==
  /\ ops[c].at = "waiting"
  /\ controller.runtime_lock # <<>>
  /\ Head(controller.runtime_lock) = c
  /\ IF c = "start"
       THEN LET r == StartLocked([controller EXCEPT !.runtime_lock = Tail(@)])
            IN Becomes(c, [controller |-> r.controller, at |-> "idle", returned |-> r.returned])
       ELSE Becomes(c, StopLocked(controller, c))
  /\ UNCHANGED outsideController

\* The engine task a stop awaits has ended: stop goes on and returns.
TaskAwaited(c) ==
  /\ ops[c].at = "awaiting_task"
  /\ controller.engine_task = "done"
  /\ Becomes(c, [controller |-> StopReturns(controller, c), at |-> "idle",
                 returned |-> IF c = "stop" THEN "stopped" ELSE "ok"])
  /\ UNCHANGED outsideController

\* The engine task ends: cancelled, or run_headless returning or raising
\* on its own.
EngineTaskEnds ==
  /\ TaskNotDone(controller)
  /\ controller' = [controller EXCEPT !.engine_task = "done"]
  /\ UNCHANGED <<ops, outsideController>>

\* pause_entries() and resume_entries()
PauseEntries ==
  /\ controller' = [controller EXCEPT !.entries_paused = TRUE]
  /\ UNCHANGED <<ops, outsideController>>

ResumeEntries ==
  /\ controller' = [controller EXCEPT !.entries_paused = FALSE]
  /\ UNCHANGED <<ops, outsideController>>

NextController ==
  \/ ControllerStart
  \/ ControllerStop
  \/ KillSwitch
  \/ \E c \in Calls : LockAcquired(c)
  \/ \E c \in Calls \ {"start"} : TaskAwaited(c)
  \/ EngineTaskEnds
  \/ PauseEntries
  \/ ResumeEntries

SpecController == Init /\ [][NextController]_vars

\* C40: in every reachable state of the API EngineController, under any
\* sequence of start, stop and kill_switch calls, the engine is not running
\* while the kill switch is engaged: kill_switch() leaves running false
\* with the engine task cancelled, and running and kill_switch_engaged are
\* never both true afterwards.
C40_NotRunningWhileKilled ==
  ~(controller.running /\ controller.kill_switch_engaged)

\* The step in which a kill_switch call returns.
KillSwitchReturns ==
  /\ KillSwitch \/ LockAcquired("kill_switch") \/ TaskAwaited("kill_switch")
  /\ ops'["kill_switch"].at = "idle"

\* kill_switch() itself returns with the flag set, running false, the
\* entries paused and no engine task alive.
KillSwitchLeavesStopped ==
  [][KillSwitchReturns =>
       /\ controller'.kill_switch_engaged
       /\ ~controller'.running
       /\ controller'.entries_paused
       /\ ~TaskNotDone(controller')]_vars

\* Only start sets running, and it does so whatever the kill switch says.
OnlyStartSetsRunning ==
  [][(~controller.running /\ controller'.running) => (ControllerStart \/ LockAcquired("start"))]_vars
====
